---------------------------- MODULE Spec2Model ----------------------------
(***************************************************************************)
(* Model of the weather resolution and caching pipeline of the weather    *)
(* API: the Redis cache tier (WeatherCache), the MongoDB historical store *)
(* (MongoWeatherStorage), the OpenMeteo upstream client, the four request *)
(* handlers of endpoints/weather.py and the backfill of                   *)
(* PopulationService.                                                      *)
(*                                                                         *)
(* Numbers.  Temperatures are integers in thousandths of a degree,        *)
(* wind speeds are integers in hundredths of a speed unit.  Python's      *)
(* round(x, 2) is modelled on the exact rational value, ties to even.     *)
(* Dates are day numbers, day MinDate being 2022-01-01.                    *)
(***************************************************************************)
EXTENDS Integers, Sequences, FiniteSets, TLC

(***************************************************************************)
(* Bounds of the model.                                                    *)
(***************************************************************************)
Today == 3          \* the day number of "now" (datetime.now().date())
MaxOps == 2         \* requests and backfill runs started in one behaviour
MaxDaysBack == 2    \* largest days_back a backfill run is started with

(***************************************************************************)
(* Program constants.                                                      *)
(***************************************************************************)
MinDate == 0            \* "2022-01-01", the historical floor
KelvinOffset == 273150  \* 273.15 in thousandths
FahrenheitOffset == 32000 \* 32 in thousandths
MphNum == 2237          \* 2.237 mph per m/s, as a fraction MphNum / MphDen
MphDen == 1000
ProviderDays == 7       \* the provider's daily arrays hold 7 days, today first
ForecastLimit == 7      \* forecasts are served up to 7 days ahead
KmhToMphNum == 621371   \* 0.621371 mph per km/h
KmhToMphDen == 1000000

Units == {"standard", "metric", "imperial"}
TrackedCities == {"london,gb"}
\* CITIES, the gazetteer: the tracked city and one city that is not tracked
Cities == {"london,gb", "tokyo,jp"}

Absent == [absent |-> TRUE]

(***************************************************************************)
(* round(): the nearest integer to n / d (d > 0), ties to the even one.    *)
(***************************************************************************)
RoundDiv(n, d) ==
    LET r == n % d
        q == (n - r) \div d
    IN  IF 2 * r < d THEN q
        ELSE IF 2 * r > d THEN q + 1
        ELSE IF q % 2 = 0 THEN q ELSE q + 1

\* round(n / d, 2) for a temperature n / d in thousandths: a multiple of 10
Round2T(n, d) == 10 * RoundDiv(n, 10 * d)

\* round(n / d, 2) for a wind speed n / d in hundredths
Round2W(n, d) == RoundDiv(n, d)

(***************************************************************************)
(* WeatherCache._convert_temperature and _convert_wind_speed.              *)
(***************************************************************************)
\* the Kelvin value as a fraction <<numerator, denominator>>
\* a converter to Kelvin whose Celsius offset is 273 instead of 273.15
ToKelvinWrong(temp, from_units) ==
    IF from_units = "metric" THEN <<temp + 273000, 1>>
    ELSE IF from_units = "imperial"
         THEN <<(temp - FahrenheitOffset) * 5 + KelvinOffset * 9, 9>>
    ELSE <<temp, 1>>

ToKelvin(temp, from_units) ==
    IF from_units = "metric" THEN <<temp + KelvinOffset, 1>>
    ELSE IF from_units = "imperial"
         THEN <<(temp - FahrenheitOffset) * 5 + KelvinOffset * 9, 9>>
    ELSE <<temp, 1>>

\* a temperature converter that rounds to one decimal
CacheConvertTemperatureTenths(temp, from_units, to_units) ==
    LET k == ToKelvin(temp, from_units)
    IN  IF to_units = "metric"
        THEN 100 * RoundDiv(k[1] - KelvinOffset * k[2], 100 * k[2])
        ELSE IF to_units = "imperial"
             THEN 100 * RoundDiv((k[1] - KelvinOffset * k[2]) * 9
                                    + FahrenheitOffset * 5 * k[2], 500 * k[2])
        ELSE 100 * RoundDiv(k[1], 100 * k[2])

CacheConvertTemperature(temp, from_units, to_units) ==
    LET k == ToKelvin(temp, from_units)
        kn == k[1]
        kd == k[2]
    IN  IF to_units = "metric" THEN Round2T(kn - KelvinOffset * kd, kd)
        ELSE IF to_units = "imperial"
             THEN Round2T((kn - KelvinOffset * kd) * 9 + FahrenheitOffset * 5 * kd,
                          5 * kd)
        ELSE Round2T(kn, kd)

\* a wind-speed converter that takes every source value for metres per second
CacheConvertWindSpeedOneWay(speed, from_units, to_units) ==
    IF to_units = "imperial" THEN Round2W(speed * MphNum, MphDen)
    ELSE Round2W(speed, 1)

CacheConvertWindSpeed(speed, from_units, to_units) ==
    LET ms == IF from_units = "imperial"
              THEN <<speed * MphDen, MphNum>>
              ELSE <<speed, 1>>
    IN  IF to_units = "imperial"
        THEN Round2W(ms[1] * MphNum, ms[2] * MphDen)
        ELSE Round2W(ms[1], ms[2])

(***************************************************************************)
(* OpenMeteoClient._convert_temperature and _convert_wind_speed: from the  *)
(* provider's Celsius and km/h.  The raw value is the fraction n / d.      *)
(***************************************************************************)
UpConvertTemperature(n, d, to_units) ==
    IF to_units = "standard" THEN Round2T(n + KelvinOffset * d, d)
    ELSE IF to_units = "imperial"
         THEN Round2T(n * 9 + FahrenheitOffset * 5 * d, 5 * d)
    ELSE Round2T(n, d)

UpConvertWindSpeed(n, d, to_units) ==
    IF to_units = "imperial"
    THEN Round2W(n * KmhToMphNum, d * KmhToMphDen)
    ELSE Round2W(n, d)

(***************************************************************************)
(* The upstream provider.  Its answer for a (city, day) is deterministic:  *)
(* one row of RawTable, selected by the seed chosen at start.  A row holds *)
(* the daily minimum and maximum and the current temperature in Celsius    *)
(* (thousandths) and the wind speed in km/h (hundredths).                  *)
(***************************************************************************)
RawTable == <<
    [tmin |-> 10000, tmax |-> 10010, cur |-> 10000, wind |-> 1000],
    [tmin |-> 30,    tmax |-> 40,    cur |-> 40,    wind |-> 0],
    [tmin |-> 0 - 29990, tmax |-> 18100, cur |-> 0 - 5000, wind |-> 520] >>

CityIdx(city) == IF city = "london,gb" THEN 0 ELSE 1

RawOf(sd, city, day) == RawTable[((sd + CityIdx(city) + day) % Len(RawTable)) + 1]

NoMeta == [none |-> TRUE]

\* a WeatherMeta whose cached flag is never set
MetaUncached(cached, provider, data_type) ==
    [cached |-> FALSE, provider |-> provider, data_type |-> data_type]

Meta(cached, provider, data_type) ==
    [cached |-> cached, provider |-> provider, data_type |-> data_type]

\* WeatherResponse: evening and morning always equal afternoon and are not kept
Reading(units, date, tmin, tmax, afternoon, night, wind) ==
    [units |-> units, date |-> date, tmin |-> tmin, tmax |-> tmax,
     afternoon |-> afternoon, night |-> night, wind |-> wind, meta |-> NoMeta]

\* OpenMeteoClient.get_historical_weather, given the provider's daily row
UpHistorical(raw, date, units) ==
    LET temp_min == UpConvertTemperature(raw.tmin, 1, units)
        temp_max == UpConvertTemperature(raw.tmax, 1, units)
        temp_avg == (temp_min + temp_max) \div 2
        wind_speed == UpConvertWindSpeed(raw.wind, 1, units)
    IN  Reading(units, date, temp_min, temp_max, temp_avg, temp_min, wind_speed)

\* OpenMeteoClient.get_current_weather: minimum and maximum are daily[3]
UpCurrent(raw, raw3, date, units) ==
    Reading(units, date,
            UpConvertTemperature(raw3.tmin, 1, units),
            UpConvertTemperature(raw3.tmax, 1, units),
            UpConvertTemperature(raw.cur, 1, units),
            UpConvertTemperature(raw.cur, 1, units),
            UpConvertWindSpeed(raw.wind, 1, units))

RECURSIVE SumOver(_, _, _, _, _)
SumOver(sd, city, s, e, f) ==
    IF s > e THEN 0
    ELSE (IF f = "tmin" THEN RawOf(sd, city, s).tmin
          ELSE IF f = "tmax" THEN RawOf(sd, city, s).tmax
          ELSE RawOf(sd, city, s).wind) + SumOver(sd, city, s + 1, e, f)

SetMin(S) == CHOOSE v \in S : \A w \in S : v <= w
SetMax(S) == CHOOSE v \in S : \A w \in S : v >= w

\* OpenMeteoClient.get_weather_stats over the days s..e (s <= e)
UpStats(sd, city, s, e, units) ==
    LET n == e - s + 1
        temp_min == SetMin({RawOf(sd, city, d).tmin : d \in s..e})
        temp_max == SetMax({RawOf(sd, city, d).tmax : d \in s..e})
        max_wind == SetMax({RawOf(sd, city, d).wind : d \in s..e})
    IN  [tmin |-> UpConvertTemperature(temp_min, 1, units),
         tmax |-> UpConvertTemperature(temp_max, 1, units),
         average |-> UpConvertTemperature(
                         SumOver(sd, city, s, e, "tmin")
                           + SumOver(sd, city, s, e, "tmax"), 2 * n, units),
         average_speed |-> UpConvertWindSpeed(SumOver(sd, city, s, e, "wind"),
                                              n, units),
         max_speed |-> UpConvertWindSpeed(max_wind, 1, units),
         meta |-> NoMeta]

IsReading(data) == "units" \in DOMAIN data
IsStats(data) == "average_speed" \in DOMAIN data

(***************************************************************************)
(* WeatherCache._convert_units                                             *)
(***************************************************************************)
ConvertUnits(data, from_units, to_units) ==
    IF from_units = to_units THEN data
    ELSE IF IsReading(data)
    THEN [data EXCEPT
            !.tmin = CacheConvertTemperature(@, from_units, to_units),
            !.tmax = CacheConvertTemperature(@, from_units, to_units),
            !.afternoon = CacheConvertTemperature(@, from_units, to_units),
            !.night = CacheConvertTemperature(@, from_units, to_units),
            !.wind = CacheConvertWindSpeed(@, from_units, to_units),
            !.units = to_units]
    ELSE IF IsStats(data)
    THEN [data EXCEPT
            !.tmin = CacheConvertTemperature(@, from_units, to_units),
            !.tmax = CacheConvertTemperature(@, from_units, to_units),
            !.average = CacheConvertTemperature(@, from_units, to_units),
            !.average_speed = CacheConvertWindSpeed(@, from_units, to_units),
            !.max_speed = CacheConvertWindSpeed(@, from_units, to_units)]
    ELSE data

(***************************************************************************)
(* WeatherCache: keys, TTL, get and set.  The cache is a function from the *)
(* keys present to entries [val, ttl]; val is the decoded JSON payload.    *)
(***************************************************************************)
\* _get_key: date is the pair <<d, d>> of a day, or <<start, end>> for stats
GetKey(city, date, data_type) == <<city, date, data_type>>

\* _get_ttl, in seconds
\* one hour for every kind of data
GetTtlFlat(data_type, date, nowDay) == 60 * 60

GetTtl(data_type, date, nowDay) ==
    IF data_type = "current" THEN 15 * 60
    ELSE IF data_type = "forecast"
         THEN (IF date[1] - nowDay <= 3 THEN 2 * 60 * 60 ELSE 4 * 60 * 60)
    ELSE IF data_type = "historical" THEN 24 * 60 * 60
    ELSE IF data_type = "stats" THEN 24 * 60 * 60
    ELSE 60 * 60

\* a dump that keeps the "meta" field
DropMetaKeeps(data) == data

\* model_dump() with "meta" popped
DropMeta(data) == [f \in (DOMAIN data) \ {"meta"} |-> data[f]]

\* A stored string is kept as the JSON object it holds (a record), or, when
\* it holds no JSON object, as [raw |-> the string].
IsRaw(val) == "raw" \in DOMAIN val

\* strings json.loads accepts that are no JSON object: the list, null, a
\* number, a string
JsonNonObjects == {"[]", "null", "42", "\"abc\""}

\* model_validate: the payload has the fields of the model for data_type,
\* and units is one of the three literals
ValidPayload(val, data_type) ==
    IF data_type = "stats"
    THEN {"tmin", "tmax", "average", "average_speed", "max_speed"} \subseteq DOMAIN val
    ELSE /\ {"units", "date", "tmin", "tmax", "afternoon", "night", "wind"}
               \subseteq DOMAIN val
         /\ val.units \in Units

\* how WeatherCache.get ends on the entry of a key: "miss" (no entry),
\* "empty" (the empty string fails `if data:`), "JSONDecodeError" and
\* "ValidationError" (caught: the entry is deleted), "AttributeError"
\* (json_data.get on a value that is no dict: not caught), "hit"
CacheGetOutcome(c, city, date, data_type) ==
    LET key == GetKey(city, date, data_type)
    IN  IF key \notin DOMAIN c THEN "miss"
        ELSE IF IsRaw(c[key].val)
        THEN (IF c[key].val.raw = "" THEN "empty"
              ELSE IF c[key].val.raw \in JsonNonObjects THEN "AttributeError"
              ELSE "JSONDecodeError")
        ELSE IF ~ValidPayload(c[key].val, data_type) THEN "ValidationError"
        ELSE "hit"

CacheGetRaises(c, city, date, data_type) ==
    CacheGetOutcome(c, city, date, data_type) = "AttributeError"

\* WeatherCache.get: Absent on a miss or an undecodable entry
CacheGet(c, city, date, data_type, units) ==
    LET key == GetKey(city, date, data_type)
    IN  IF CacheGetOutcome(c, city, date, data_type) # "hit" THEN Absent
        ELSE LET json_data == c[key].val
                 cached_units == IF "units" \in DOMAIN json_data
                                 THEN json_data.units ELSE "standard"
                 meta == Meta(TRUE, "OpenMeteo", data_type)
                 model == [f \in (DOMAIN json_data) \cup {"meta"} |->
                              IF f = "meta" THEN meta ELSE json_data[f]]
             IN  ConvertUnits(model, cached_units, units)

\* what WeatherCache.get leaves in Redis: an undecodable entry is deleted
CacheAfterGet(c, city, date, data_type) ==
    LET key == GetKey(city, date, data_type)
    IN  IF CacheGetOutcome(c, city, date, data_type)
              \in {"JSONDecodeError", "ValidationError"}
        THEN [k \in (DOMAIN c) \ {key} |-> c[k]]
        ELSE c

\* what redis.get(key) adds to the server's counters: a hit when the key is
\* present, a miss when it is not
InfoAfterGet(i, c, key) ==
    IF key \in DOMAIN c
    THEN [i EXCEPT !.keyspace_hits = @ + 1]
    ELSE [i EXCEPT !.keyspace_misses = @ + 1]

\* WeatherCache.set raises AttributeError at cache_data.units when the data
\* has no units attribute (WeatherStats has none)
CacheSetRaises(data) == ~IsReading(data)

CacheSet(c, city, date, data_type, data, nowDay) ==
    LET key == GetKey(city, date, data_type)
        ttl == GetTtl(data_type, date, nowDay)
        cache_data == IF data.units # "standard"
                      THEN ConvertUnits(data, data.units, "standard")
                      ELSE data
        entry == [val |-> DropMeta(cache_data), ttl |-> ttl]
    IN  [k \in (DOMAIN c) \cup {key} |-> IF k = key THEN entry ELSE c[k]]

(***************************************************************************)
(* MongoWeatherStorage.  The collection is the sequence of its documents.  *)
(***************************************************************************)
IsTrackedCity(city_key) == city_key \in TrackedCities

Matches(coll, city_key, date) ==
    {i \in 1..Len(coll) : coll[i].city_key = city_key /\ coll[i].date = date}

\* collection.find_one({"city_key": ..., "date": ...})
FindOne(coll, city_key, date) ==
    IF Matches(coll, city_key, date) = {} THEN Absent
    ELSE coll[SetMin(Matches(coll, city_key, date))]

\* a get_weather that finds no record
GetWeatherBlind(coll, city_key, date) ==
    IF ~IsTrackedCity(city_key) THEN [result |-> Absent, read |-> FALSE]
    ELSE [result |-> Absent, read |-> TRUE]

\* get_weather: [result, read]; read says whether the collection was queried
GetWeather(coll, city_key, date) ==
    IF ~IsTrackedCity(city_key) THEN [result |-> Absent, read |-> FALSE]
    ELSE LET record == FindOne(coll, city_key, date)
         IN  IF record = Absent THEN [result |-> Absent, read |-> TRUE]
             ELSE [result |-> Reading("standard", record.date,
                                      record.temperature_min,
                                      record.temperature_max,
                                      record.temperature_afternoon,
                                      record.temperature_night,
                                      record.wind_speed),
                   read |-> TRUE]

\* HistoricalWeatherRecord built from a WeatherResponse
Record(weather, city_key) ==
    [city_key |-> city_key, date |-> weather.date,
     temperature_min |-> weather.tmin, temperature_max |-> weather.tmax,
     temperature_afternoon |-> weather.afternoon,
     temperature_night |-> weather.night, wind_speed |-> weather.wind]

\* collection.update_one(filter, {"$set": record}, upsert=True)
UpdateOneUpsert(coll, city_key, date, record) ==
    IF Matches(coll, city_key, date) = {} THEN Append(coll, record)
    ELSE [coll EXCEPT ![SetMin(Matches(coll, city_key, date))] = record]

\* a store_weather without the tracked-city check
StoreWeatherAlways(coll, weather, city_key) ==
    UpdateOneUpsert(coll, city_key, weather.date, Record(weather, city_key))

\* store_weather: a no-op for a city that is not tracked
StoreWeather(coll, weather, city_key) ==
    IF ~IsTrackedCity(city_key) THEN coll
    ELSE UpdateOneUpsert(coll, city_key, weather.date, Record(weather, city_key))

StoreWrites(weather, city_key) == IsTrackedCity(city_key)

(***************************************************************************)
(* State.                                                                  *)
(***************************************************************************)
VARIABLES
    cache,      \* Redis: key -> [val, ttl], for the keys present
    coll,       \* MongoDB: the sequence of historical documents
    indexed,    \* whether setup() has created the unique (city_key, date) index
    proc,       \* per task: the handler it runs and where it stands in it
    resp,       \* the latest completed event: a response, a manifest, an expiry
    prev,       \* the completed event before resp
    written,    \* (city_key, date) -> the record of the latest update_one
    ops,        \* requests and backfill runs started so far
    seed,       \* which rows of RawTable the provider answers with
    today,      \* datetime.now().date(), a day number
    info        \* Redis INFO: the server's keyspace_hits and keyspace_misses

vars == <<cache, coll, indexed, proc, resp, prev, written, ops, seed, today,
         info>>

Procs == {1, 2}

IdleProc ==
    [op |-> "idle", pc |-> "idle", city |-> "", date |-> <<0, 0>>,
     units |-> "", tod |-> 0, tier |-> "", data |-> Absent, trace |-> <<>>,
     days |-> 0, cur |-> 0, store0 |-> <<>>,
     processed |-> <<>>, failed |-> <<>>]

Ev(name, day) == [ev |-> name, day |-> day]

Init ==
    /\ cache = <<>>
    /\ coll = <<>>
    /\ indexed = FALSE
    /\ proc = [p \in Procs |-> IdleProc]
    /\ resp = Absent
    /\ prev = Absent
    /\ written = <<>>
    /\ ops = 0
    /\ seed \in 0..(Len(RawTable) - 1)
    /\ today = Today
    /\ info = [keyspace_hits |-> 0, keyspace_misses |-> 0]

NoteWrite(w, k, record) ==
    [q \in (DOMAIN w) \cup {k} |-> IF q = k THEN record ELSE w[q]]

\* a handler returns or raises: the event is recorded and the task is free
Complete(p, status, code, data, trace) ==
    /\ resp' = [op |-> proc[p].op, city |-> proc[p].city, date |-> proc[p].date,
                units |-> proc[p].units, status |-> status, code |-> code,
                data |-> data, trace |-> trace]
    /\ prev' = resp
    /\ proc' = [proc EXCEPT ![p] = IdleProc]

Begin(p, op, city, date, units) ==
    [IdleProc EXCEPT !.op = op, !.pc = "cache_get", !.city = city,
                     !.date = date, !.units = units]

Rejected(p, op, city, date, units, status, code) ==
    /\ resp' = [op |-> op, city |-> city, date |-> date, units |-> units,
                status |-> status, code |-> code, data |-> Absent,
                trace |-> <<>>]
    /\ prev' = resp
    /\ proc' = proc

(***************************************************************************)
(* endpoints/weather.py: validation, the part of each handler before the   *)
(* first await.  Each handler reads datetime.now(): the day is today, the  *)
(* time of day t is an input of the request, 0 for exactly midnight and 1  *)
(* for any later time.  Instants are counted in half days: midnight of day *)
(* d is 2 * d and now is 2 * today + t.                                    *)
(***************************************************************************)
TimesOfDay == {0, 1}

NowInstant(t) == 2 * today + t

\* get_city_key: the key of a known city (names are already keys here)
KnownCity(city) == city \in Cities

\* A date string is the day it denotes when datetime.strptime(date,
\* "%Y-%m-%d") accepts it; MalformedDate stands for every string on which
\* strptime raises ValueError.
MalformedDate == 0 - 99

DateParses(d) == d # MalformedDate

\* a historical window without its upper end
HistoricalDateValidLax(d, t) == 2 * MinDate <= 2 * d

\* min_date <= requested_date <= now - 1 day
HistoricalDateValid(d, t) ==
    /\ 2 * MinDate <= 2 * d
    /\ 2 * d <= NowInstant(t) - 2

\* now + 1 day <= requested_date <= now + 7 days
ForecastDateValid(d, t) ==
    /\ NowInstant(t) + 2 <= 2 * d
    /\ 2 * d <= NowInstant(t) + 2 * ForecastLimit

StartCurrent(p, city, units) ==
    /\ proc[p].pc = "idle"
    /\ ops < MaxOps
    /\ ops' = ops + 1
    /\ IF ~KnownCity(city)
       THEN Rejected(p, "current", city, <<today, today>>, units, 404,
                     "CITY_NOT_FOUND")
       ELSE /\ proc' = [proc EXCEPT ![p] =
                           Begin(p, "current", city, <<today, today>>, units)]
            /\ UNCHANGED <<resp, prev>>
    /\ UNCHANGED <<cache, coll, indexed, written, seed, today, info>>

StartHistorical(p, city, d, units, t) ==
    /\ proc[p].pc = "idle"
    /\ ops < MaxOps
    /\ ops' = ops + 1
    /\ IF ~KnownCity(city)
       THEN Rejected(p, "historical", city, <<d, d>>, units, 404, "CITY_NOT_FOUND")
       ELSE IF ~DateParses(d)
       THEN Rejected(p, "historical", city, <<d, d>>, units, 400,
                     "INVALID_DATE_FORMAT")
       ELSE IF ~HistoricalDateValid(d, t)
       THEN Rejected(p, "historical", city, <<d, d>>, units, 400, "INVALID_DATE")
       ELSE /\ proc' = [proc EXCEPT ![p] =
                           Begin(p, "historical", city, <<d, d>>, units)]
            /\ UNCHANGED <<resp, prev>>
    /\ UNCHANGED <<cache, coll, indexed, written, seed, today, info>>

StartForecast(p, city, d, units, t) ==
    /\ proc[p].pc = "idle"
    /\ ops < MaxOps
    /\ ops' = ops + 1
    /\ IF ~KnownCity(city)
       THEN Rejected(p, "forecast", city, <<d, d>>, units, 404, "CITY_NOT_FOUND")
       ELSE IF ~DateParses(d)
       THEN Rejected(p, "forecast", city, <<d, d>>, units, 400,
                     "INVALID_DATE_FORMAT")
       ELSE IF ~ForecastDateValid(d, t)
       THEN Rejected(p, "forecast", city, <<d, d>>, units, 400, "INVALID_DATE")
       ELSE /\ proc' = [proc EXCEPT ![p] =
                           [Begin(p, "forecast", city, <<d, d>>, units)
                               EXCEPT !.tod = t]]
            /\ UNCHANGED <<resp, prev>>
    /\ UNCHANGED <<cache, coll, indexed, written, seed, today, info>>

StartStats(p, city, s, e, units, t) ==
    /\ proc[p].pc = "idle"
    /\ ops < MaxOps
    /\ ops' = ops + 1
    /\ IF ~KnownCity(city)
       THEN Rejected(p, "stats", city, <<s, e>>, units, 404, "CITY_NOT_FOUND")
       ELSE IF ~DateParses(s) \/ ~DateParses(e)
       THEN Rejected(p, "stats", city, <<s, e>>, units, 400,
                     "INVALID_DATE_FORMAT")
       ELSE IF s > e \/ ~HistoricalDateValid(s, t) \/ ~HistoricalDateValid(e, t)
       THEN Rejected(p, "stats", city, <<s, e>>, units, 400, "INVALID_DATE_RANGE")
       ELSE /\ proc' = [proc EXCEPT ![p] =
                           Begin(p, "stats", city, <<s, e>>, units)]
            /\ UNCHANGED <<resp, prev>>
    /\ UNCHANGED <<cache, coll, indexed, written, seed, today, info>>

(***************************************************************************)
(* endpoints/weather.py: the tiers, one action per await.                  *)
(***************************************************************************)
\* a cache read that goes on to the next tier even on a hit
CacheGetStepNoExit(p) ==
    LET me == proc[p]
        tr == Append(me.trace, Ev("cache_get", me.date[1]))
    IN  /\ me.pc = "cache_get"
        /\ cache' = CacheAfterGet(cache, me.city, me.date, me.op)
        /\ proc' = [proc EXCEPT ![p].trace = tr,
                       ![p].pc = IF me.op = "historical"
                                    /\ IsTrackedCity(me.city)
                                 THEN "store_get" ELSE "upstream"]
        /\ info' = InfoAfterGet(info, cache, GetKey(me.city, me.date, me.op))
        /\ UNCHANGED <<resp, prev, coll, indexed, written, ops, seed, today>>

\* cached_data = await weather_cache.get(...); return it on a hit
CacheGetStep(p) ==
    LET me == proc[p]
        got == CacheGet(cache, me.city, me.date, me.op, me.units)
        tr == Append(me.trace, Ev("cache_get", me.date[1]))
    IN  /\ me.pc = "cache_get"
        /\ cache' = CacheAfterGet(cache, me.city, me.date, me.op)
        /\ IF CacheGetRaises(cache, me.city, me.date, me.op)
           THEN Complete(p, 500, "AttributeError", Absent, tr)
           ELSE IF got # Absent
           THEN Complete(p, 200, "OK", got, tr)
           ELSE /\ proc' = [proc EXCEPT ![p].trace = tr,
                               ![p].pc = IF me.op = "historical"
                                            /\ IsTrackedCity(me.city)
                                         THEN "store_get" ELSE "upstream"]
                /\ UNCHANGED <<resp, prev>>
        /\ info' = InfoAfterGet(info, cache, GetKey(me.city, me.date, me.op))
        /\ UNCHANGED <<coll, indexed, written, ops, seed, today>>

\* a store lookup whose result is ignored: the request goes on to upstream
StoreGetStepMiss(p) ==
    LET me == proc[p]
        got == GetWeather(coll, me.city, me.date[1])
        tr == IF got.read THEN Append(me.trace, Ev("store_find", me.date[1]))
              ELSE me.trace
    IN  /\ me.pc = "store_get"
        /\ proc' = [proc EXCEPT ![p].trace = tr, ![p].pc = "upstream"]
        /\ UNCHANGED <<resp, prev>>
        /\ UNCHANGED <<cache, coll, indexed, written, ops, seed, today, info>>

\* mongo_data = await mongo_storage.get_weather(city_key, date, units=units);
\* weather_cache.convert_units does not exist: for units other than standard
\* the handler raises AttributeError
StoreGetStep(p) ==
    LET me == proc[p]
        got == GetWeather(coll, me.city, me.date[1])
        tr == IF got.read THEN Append(me.trace, Ev("store_find", me.date[1]))
              ELSE me.trace
        mongo_data == [got.result EXCEPT
                         !.meta = Meta(FALSE, "OpenMeteo [MongoDB Storage]",
                                       "historical")]
    IN  /\ me.pc = "store_get"
        /\ IF got.result = Absent
           THEN /\ proc' = [proc EXCEPT ![p].trace = tr, ![p].pc = "upstream"]
                /\ UNCHANGED <<resp, prev>>
           ELSE IF me.units # "standard"
           THEN Complete(p, 500, "AttributeError", Absent, tr)
           ELSE /\ proc' = [proc EXCEPT ![p].trace = tr, ![p].pc = "cache_set",
                                        ![p].tier = "store",
                                        ![p].data = mongo_data]
                /\ UNCHANGED <<resp, prev>>
        /\ UNCHANGED <<cache, coll, indexed, written, ops, seed, today, info>>

\* (target_date - datetime.now()).days
DaysAhead(d, t) ==
    (2 * d - NowInstant(t) - ((2 * d - NowInstant(t)) % 2)) \div 2

\* what the weather client returns for the request of task p
UpstreamData(me) ==
    IF me.op = "current"
    THEN UpCurrent(RawOf(seed, me.city, today), RawOf(seed, me.city, today + 3),
                   today, me.units)
    ELSE IF me.op = "historical"
    THEN UpHistorical(RawOf(seed, me.city, me.date[1]), me.date[1], me.units)
    ELSE IF me.op = "forecast"
    THEN UpHistorical(RawOf(seed, me.city, today + DaysAhead(me.date[1], me.tod)),
                      me.date[1], me.units)
    ELSE UpStats(seed, me.city, me.date[1], me.date[2], me.units)

\* weather_data = await weather_client.get_...(...); weather_data.meta = ...
UpstreamOk(p) ==
    LET me == proc[p]
        tr == Append(me.trace, Ev("upstream", me.date[1]))
        weather_data == [UpstreamData(me) EXCEPT
                           !.meta = Meta(FALSE, "OpenMeteo", me.op)]
    IN  /\ me.pc = "upstream"
        /\ IF me.op = "forecast" /\ DaysAhead(me.date[1], me.tod) > ForecastLimit
           THEN Complete(p, 400, "FORECAST_NOT_AVAILABLE", Absent, me.trace)
           ELSE IF me.op = "forecast" /\ DaysAhead(me.date[1], me.tod) >= ProviderDays
           THEN Complete(p, 500, "IndexError", Absent, tr)
           ELSE /\ proc' = [proc EXCEPT ![p].trace = tr, ![p].pc = "cache_set",
                                        ![p].tier = "upstream",
                                        ![p].data = weather_data]
                /\ UNCHANGED <<resp, prev>>
        /\ UNCHANGED <<cache, coll, indexed, written, ops, seed, today, info>>

\* What makes _make_request fail: an error status of the provider's
\* response (raise_for_status), or no response at all (httpx.RequestError),
\* written NoResponse.
NoResponse == 0

UpstreamFailures == {404, 500, NoResponse}

\* an error mapping that reports every failure as a service error
MakeRequestErrorFlat(failure) == [status |-> 500, code |-> "WEATHER_API_ERROR"]

\* the HTTPException _make_request raises for a failure
MakeRequestError(failure) ==
    IF failure = 404 THEN [status |-> 404, code |-> "LOCATION_NOT_FOUND"]
    ELSE [status |-> 500, code |-> "WEATHER_API_ERROR"]

\* the failed call as the trace keeps it
FailedCall(me, failure) ==
    Append(Append(me.trace, Ev("upstream", me.date[1])),
           [ev |-> "upstream_failure", failure |-> failure])

\* an upstream failure that leaves an empty placeholder under the cache key
UpstreamFailCached(p, failure) ==
    LET me == proc[p]
        key == GetKey(me.city, me.date, me.op)
    IN  /\ me.pc = "upstream"
        /\ cache' = [k \in (DOMAIN cache) \cup {key} |->
                        IF k = key THEN [val |-> [raw |-> ""], ttl |-> 60]
                        ELSE cache[k]]
        /\ Complete(p, MakeRequestError(failure).status,
                    MakeRequestError(failure).code, Absent,
                    FailedCall(me, failure))
        /\ UNCHANGED <<coll, indexed, written, ops, seed, today, info>>

\* _make_request raises HTTPException: 404 LOCATION_NOT_FOUND or 500
UpstreamFail(p, failure) ==
    LET me == proc[p]
    IN  /\ me.pc = "upstream"
        /\ Complete(p, MakeRequestError(failure).status,
                    MakeRequestError(failure).code, Absent,
                    FailedCall(me, failure))
        /\ UNCHANGED <<cache, coll, indexed, written, ops, seed, today, info>>

\* a write-through that converts its argument in place
CacheSetStepInPlace(p) ==
    LET me == proc[p]
        tr == Append(me.trace, Ev("cache_set", me.date[1]))
        converted == IF IsReading(me.data) /\ me.data.units # "standard"
                     THEN ConvertUnits(me.data, me.data.units, "standard")
                     ELSE me.data
    IN  /\ me.pc = "cache_set"
        /\ IF CacheSetRaises(me.data)
           THEN /\ Complete(p, 500, "AttributeError", Absent, me.trace)
                /\ UNCHANGED cache
           ELSE /\ cache' = CacheSet(cache, me.city, me.date, me.op, me.data, today)
                /\ IF me.tier = "upstream" /\ me.op = "historical"
                      /\ IsTrackedCity(me.city)
                   THEN /\ proc' = [proc EXCEPT ![p].trace = tr,
                                                ![p].pc = "store_put",
                                                ![p].data = converted]
                        /\ UNCHANGED <<resp, prev>>
                   ELSE Complete(p, 200, "OK", converted, tr)
        /\ UNCHANGED <<coll, indexed, written, ops, seed, today, info>>

\* await weather_cache.set(city_key, date, data_type, data)
CacheSetStep(p) ==
    LET me == proc[p]
        tr == Append(me.trace, Ev("cache_set", me.date[1]))
    IN  /\ me.pc = "cache_set"
        /\ IF CacheSetRaises(me.data)
           THEN /\ Complete(p, 500, "AttributeError", Absent, me.trace)
                /\ UNCHANGED cache
           ELSE /\ cache' = CacheSet(cache, me.city, me.date, me.op, me.data, today)
                /\ IF me.tier = "upstream" /\ me.op = "historical"
                      /\ IsTrackedCity(me.city)
                   THEN /\ proc' = [proc EXCEPT ![p].trace = tr,
                                                ![p].pc = "store_put"]
                        /\ UNCHANGED <<resp, prev>>
                   ELSE Complete(p, 200, "OK", me.data, tr)
        /\ UNCHANGED <<coll, indexed, written, ops, seed, today, info>>

\* Whether the collection holds two documents with one (city_key, date)
HasDuplicates(c) ==
    \E i, j \in 1..Len(c) :
        i # j /\ c[i].city_key = c[j].city_key /\ c[i].date = c[j].date

\* await mongo_storage.store_weather(weather_data, city_key); return.
\* update_one(..., upsert=True) is one atomic step when the unique index
\* exists or a document matches.  Without the index an upsert that matches
\* nothing inserts in a second step (StoreInsertStep): MongoDB does not
\* serialise index-less upserts, so two of them may both insert.
StorePutStep(p) ==
    LET me == proc[p]
        tr == Append(me.trace, Ev("store_upsert", me.date[1]))
        k == <<me.city, me.date[1]>>
    IN  /\ me.pc = "store_put"
        /\ IF StoreWrites(me.data, me.city) /\ ~indexed
              /\ Matches(coll, me.city, me.date[1]) = {}
           THEN /\ proc' = [proc EXCEPT ![p].pc = "store_insert"]
                /\ UNCHANGED <<coll, written, resp, prev>>
           ELSE /\ coll' = StoreWeather(coll, me.data, me.city)
                /\ written' = IF StoreWrites(me.data, me.city)
                               THEN NoteWrite(written, k, Record(me.data, me.city))
                               ELSE written
                /\ Complete(p, 200, "OK", me.data, tr)
        /\ UNCHANGED <<cache, indexed, ops, seed, today, info>>

\* the insert of an upsert that matched nothing
StoreInsertStep(p) ==
    LET me == proc[p]
        tr == Append(me.trace, Ev("store_upsert", me.date[1]))
        k == <<me.city, me.date[1]>>
    IN  /\ me.pc = "store_insert"
        /\ coll' = Append(coll, Record(me.data, me.city))
        /\ written' = NoteWrite(written, k, Record(me.data, me.city))
        /\ Complete(p, 200, "OK", me.data, tr)
        /\ UNCHANGED <<cache, indexed, ops, seed, today, info>>

\* Redis drops an entry whose time to live has run out.  The shortest time
\* to live is 15 minutes: no entry expires while a request is in flight.
Expire(key) ==
    /\ key \in DOMAIN cache
    /\ \A p \in Procs : proc[p].op \in {"idle", "backfill"}
    /\ cache' = [k \in (DOMAIN cache) \ {key} |-> cache[k]]
    /\ resp' = [op |-> "expire", city |-> key[1], date |-> key[2], units |-> "",
                status |-> 0, code |-> key[3], data |-> Absent, trace |-> <<>>]
    /\ prev' = resp
    /\ UNCHANGED <<coll, indexed, proc, written, ops, seed, today, info>>

\* Another writer (an earlier release, an operator) leaves a string under a
\* key that WeatherCache.set would not have written.
Corrupt(key, val) ==
    /\ \A p \in Procs : proc[p].pc = "idle"
    /\ (key \in DOMAIN cache) => cache[key].val # val
    /\ cache' = [k \in (DOMAIN cache) \cup {key} |->
                    IF k = key THEN [val |-> val, ttl |-> 0 - 1] ELSE cache[k]]
    /\ resp' = [op |-> "redis_set", city |-> key[1], date |-> key[2],
                units |-> "", status |-> 0, code |-> key[3], data |-> Absent,
                trace |-> <<>>]
    /\ prev' = resp
    /\ UNCHANGED <<coll, indexed, proc, written, ops, seed, today, info>>

\* redis.scan_iter(f"weather:{city}:*"): the keys the glob pattern matches.
\* A city of "*" makes the pattern weather:*:*, which matches every key.
KeyMatches(key, city) == city = "*" \/ key[1] = city

ScanIter(c, city) == {key \in DOMAIN c : KeyMatches(key, city)}

\* a clear_city_cache that counts the keys and deletes none
ClearCityCacheKeeps(city) ==
    LET keys == ScanIter(cache, city)
    IN  /\ \A p \in Procs : proc[p].pc = "idle"
        /\ cache' = cache
        /\ resp' = [op |-> "clear_city_cache", city |-> city, date |-> <<0, 0>>,
                    units |-> "", status |-> 200, code |-> "OK",
                    data |-> [status |-> "success",
                              keys_removed |-> Cardinality(keys),
                              before |-> cache],
                    trace |-> <<>>]
        /\ prev' = resp
        /\ UNCHANGED <<coll, indexed, proc, written, ops, seed, today, info>>

\* WeatherCache.clear_city_cache: scan, then delete what was found
ClearCityCache(city) ==
    LET keys == ScanIter(cache, city)
    IN  /\ \A p \in Procs : proc[p].pc = "idle"
        /\ cache' = [k \in (DOMAIN cache) \ keys |-> cache[k]]
        /\ resp' = [op |-> "clear_city_cache", city |-> city, date |-> <<0, 0>>,
                    units |-> "", status |-> 200, code |-> "OK",
                    data |-> [status |-> "success",
                              keys_removed |-> Cardinality(keys),
                              before |-> cache],
                    trace |-> <<>>]
        /\ prev' = resp
        /\ UNCHANGED <<coll, indexed, proc, written, ops, seed, today, info>>

(***************************************************************************)
(* WeatherCache.get_stats.  A rate is a percentage in tenths, as the .1f   *)
(* format prints it.                                                       *)
(***************************************************************************)
\* patterns: the data type each glob weather:*:*:<type> ends with
Patterns == [current_weather |-> "current", historical |-> "historical",
             forecast |-> "forecast", stats |-> "stats"]

\* type_distribution: per pattern, the keys scan_iter yields
TypeDistribution(c) ==
    [data_type \in DOMAIN Patterns |->
        Cardinality({key \in DOMAIN c : key[3] = Patterns[data_type]})]

\* sum(type_distribution.values())
SumValues(type_distribution) ==
    type_distribution.current_weather + type_distribution.historical
       + type_distribution.forecast + type_distribution.stats

\* the divisor of both rates: info.get('keyspace_hits', 0)
\*                             + info.get('keyspace_misses', 1)
RateDivisor(i) == i.keyspace_hits + i.keyspace_misses

\* f"{n / divisor * 100:.1f}%"
Rate(n, i) == RoundDiv(n * 1000, RateDivisor(i))

CacheStats(c, i) ==
    [status |-> "operational",
     total_keys |-> SumValues(TypeDistribution(c)),
     hit_rate |-> Rate(i.keyspace_hits, i),
     miss_rate |-> Rate(i.keyspace_misses, i),
     cache_type_distribution |-> TypeDistribution(c)]

\* WeatherCache.get_stats: the division raises when the divisor is zero
GetStats ==
    /\ \A p \in Procs : proc[p].pc = "idle"
    /\ resp' = IF RateDivisor(info) = 0
               THEN [op |-> "cache_stats", city |-> "", date |-> <<0, 0>>,
                     units |-> "", status |-> 500,
                     code |-> "ZeroDivisionError", data |-> Absent,
                     trace |-> <<>>]
               ELSE [op |-> "cache_stats", city |-> "", date |-> <<0, 0>>,
                     units |-> "", status |-> 200, code |-> "OK",
                     data |-> CacheStats(cache, info), trace |-> <<>>]
    /\ prev' = resp
    /\ UNCHANGED <<cache, coll, indexed, proc, written, ops, seed, today, info>>

(***************************************************************************)
(* PopulationService.populate_historical_data: the backfill.  date holds   *)
(* <<start_date, end_date>>, cur is current_date.                          *)
(***************************************************************************)
\* a backfill entry without the tracked-city check
StartBackfillUnchecked(p, city, days_back) ==
    /\ proc[p].pc = "idle"
    /\ ops < MaxOps
    /\ ops' = ops + 1
    /\ IF ~KnownCity(city)
       THEN /\ Rejected(p, "backfill", city, <<today - days_back, today>>,
                        "standard", 404, "CITY_NOT_FOUND")
            /\ UNCHANGED indexed
       ELSE IF HasDuplicates(coll)
       THEN /\ Rejected(p, "backfill", city, <<today - days_back, today>>,
                        "standard", 500, "DuplicateKeyError")
            /\ UNCHANGED indexed
       ELSE /\ proc' = [proc EXCEPT ![p] =
                          [IdleProc EXCEPT !.op = "backfill", !.pc = "bf_check",
                              !.city = city,
                              !.date = <<today - days_back, today>>,
                              !.units = "standard", !.days = days_back,
                              !.cur = today - days_back, !.store0 = coll]]
            /\ indexed' = TRUE
            /\ UNCHANGED <<resp, prev>>
    /\ UNCHANGED <<cache, coll, written, seed, today, info>>

StartBackfill(p, city, days_back) ==
    /\ proc[p].pc = "idle"
    /\ ops < MaxOps
    /\ ops' = ops + 1
    /\ IF ~KnownCity(city)
       THEN /\ Rejected(p, "backfill", city, <<today - days_back, today>>,
                        "standard", 404, "CITY_NOT_FOUND")
            /\ UNCHANGED indexed
       ELSE IF ~IsTrackedCity(city)
       THEN /\ Rejected(p, "backfill", city, <<today - days_back, today>>,
                        "standard", 400, "CITY_NOT_TRACKED")
            /\ UNCHANGED indexed
       ELSE IF HasDuplicates(coll)
       THEN /\ Rejected(p, "backfill", city, <<today - days_back, today>>,
                        "standard", 500, "DuplicateKeyError")
            /\ UNCHANGED indexed
       ELSE /\ proc' = [proc EXCEPT ![p] =
                          [IdleProc EXCEPT !.op = "backfill", !.pc = "bf_check",
                              !.city = city,
                              !.date = <<today - days_back, today>>,
                              !.units = "standard", !.days = days_back,
                              !.cur = today - days_back, !.store0 = coll]]
            /\ indexed' = TRUE
            /\ UNCHANGED <<resp, prev>>
    /\ UNCHANGED <<cache, coll, written, seed, today, info>>

\* existing_data = await self.mongo_storage.get_weather(city_key, date_str)
BfCheck(p) ==
    LET me == proc[p]
        got == GetWeather(coll, me.city, me.cur)
        tr == IF got.read THEN Append(me.trace, Ev("store_find", me.cur))
              ELSE me.trace
    IN  /\ me.pc = "bf_check"
        /\ me.cur <= me.date[2]
        /\ IF got.result # Absent
           THEN proc' = [proc EXCEPT ![p].trace = tr,
                            ![p].processed = Append(@,
                                [date |-> me.cur, status |-> "skipped",
                                 reason |-> "data_exists"]),
                            ![p].cur = @ + 1]
           ELSE proc' = [proc EXCEPT ![p].trace = tr, ![p].pc = "bf_fetch"]
        /\ UNCHANGED <<cache, coll, indexed, resp, prev, written, ops, seed,
                       today, info>>

\* weather_data = await self.weather_client.get_historical_weather(...,
\*                                                    units="standard")
BfFetchOk(p) ==
    LET me == proc[p]
    IN  /\ me.pc = "bf_fetch"
        /\ proc' = [proc EXCEPT
                      ![p].trace = Append(@, Ev("upstream", me.cur)),
                      ![p].data = UpHistorical(RawOf(seed, me.city, me.cur),
                                               me.cur, "standard"),
                      ![p].pc = "bf_store"]
        /\ UNCHANGED <<cache, coll, indexed, resp, prev, written, ops, seed,
                       today, info>>

\* a fetch failure that is not recorded: the date is passed over
BfFetchFailUnrecorded(p) ==
    LET me == proc[p]
    IN  /\ me.pc = "bf_fetch"
        /\ proc' = [proc EXCEPT
                      ![p].trace = Append(@, Ev("upstream", me.cur)),
                      ![p].cur = @ + 1,
                      ![p].pc = "bf_check"]
        /\ UNCHANGED <<cache, coll, indexed, resp, prev, written, ops, seed,
                       today, info>>

\* the call raises: except Exception records the date as failed
BfFetchFail(p) ==
    LET me == proc[p]
    IN  /\ me.pc = "bf_fetch"
        /\ proc' = [proc EXCEPT
                      ![p].trace = Append(@, Ev("upstream", me.cur)),
                      ![p].failed = Append(@, [date |-> me.cur,
                                               error |-> "WEATHER_API_ERROR"]),
                      ![p].cur = @ + 1,
                      ![p].pc = "bf_check"]
        /\ UNCHANGED <<cache, coll, indexed, resp, prev, written, ops, seed,
                       today, info>>

\* a store step that reports success and writes nothing
BfStoreDropped(p) ==
    LET me == proc[p]
    IN  /\ me.pc = "bf_store"
        /\ proc' = [proc EXCEPT
                      ![p].trace = Append(@, Ev("store_upsert", me.cur)),
                      ![p].processed = Append(@, [date |-> me.cur,
                                                  status |-> "success"]),
                      ![p].data = Absent,
                      ![p].pc = "bf_sleep"]
        /\ UNCHANGED <<cache, coll, written, indexed, resp, prev, ops, seed,
                       today, info>>

\* await self.mongo_storage.store_weather(weather_data, city_key)
BfStore(p) ==
    LET me == proc[p]
        k == <<me.city, me.cur>>
    IN  /\ me.pc = "bf_store"
        /\ coll' = StoreWeather(coll, me.data, me.city)
        /\ written' = IF StoreWrites(me.data, me.city)
                       THEN NoteWrite(written, k, Record(me.data, me.city))
                       ELSE written
        /\ proc' = [proc EXCEPT
                      ![p].trace = Append(@, Ev("store_upsert", me.cur)),
                      ![p].processed = Append(@, [date |-> me.cur,
                                                  status |-> "success"]),
                      ![p].data = Absent,
                      ![p].pc = "bf_sleep"]
        /\ UNCHANGED <<cache, indexed, resp, prev, ops, seed, today, info>>

\* store_weather raises (the driver's update_one fails): except Exception
\* records the date as failed, nothing is written
BfStoreFail(p) ==
    LET me == proc[p]
    IN  /\ me.pc = "bf_store"
        /\ proc' = [proc EXCEPT
                      ![p].trace = Append(@, Ev("store_fail", me.cur)),
                      ![p].failed = Append(@, [date |-> me.cur,
                                               error |-> "PyMongoError"]),
                      ![p].data = Absent,
                      ![p].cur = @ + 1,
                      ![p].pc = "bf_check"]
        /\ UNCHANGED <<cache, coll, indexed, resp, prev, written, ops, seed,
                       today, info>>

\* a pause after which the loop skips the next date
BfSleepSkips(p) ==
    LET me == proc[p]
    IN  /\ me.pc = "bf_sleep"
        /\ proc' = [proc EXCEPT
                      ![p].trace = Append(@, Ev("sleep", me.cur)),
                      ![p].cur = @ + 2,
                      ![p].pc = "bf_check"]
        /\ UNCHANGED <<cache, coll, indexed, resp, prev, written, ops, seed,
                       today, info>>

\* await asyncio.sleep(delay_between_requests); current_date += 1 day
BfSleep(p) ==
    LET me == proc[p]
    IN  /\ me.pc = "bf_sleep"
        /\ proc' = [proc EXCEPT
                      ![p].trace = Append(@, Ev("sleep", me.cur)),
                      ![p].cur = @ + 1,
                      ![p].pc = "bf_check"]
        /\ UNCHANGED <<cache, coll, indexed, resp, prev, written, ops, seed,
                       today, info>>

\* the loop is over: the manifest is returned
Manifest(me) ==
    [city |-> me.city, start_date |-> me.date[1], end_date |-> me.date[2],
     days_requested |-> me.days, days_processed |-> Len(me.processed),
     days_failed |-> Len(me.failed), processed_dates |-> me.processed,
     failed_dates |-> me.failed, store0 |-> me.store0]

BfReturn(p) ==
    LET me == proc[p]
    IN  /\ me.pc = "bf_check"
        /\ me.cur > me.date[2]
        /\ Complete(p, 200, "OK", Manifest(me), me.trace)
        /\ UNCHANGED <<cache, coll, indexed, written, ops, seed, today, info>>

(***************************************************************************)
(* MongoWeatherStorage.get_stats.  Every await is a step; the locals are   *)
(* kept in the data field of the task.  Dates are days and a percentage is *)
(* kept in hundredths.                                                     *)
(***************************************************************************)
CityRecords(c, city) == {i \in 1..Len(c) : c[i].city_key = city}

\* find_one(filter, sort=[("date", 1)]) and sort=[("date", -1)]
FirstByDate(c, S) ==
    IF S = {} THEN Absent
    ELSE c[CHOOSE i \in S : \A j \in S : c[i].date <= c[j].date]

LastByDate(c, S) ==
    IF S = {} THEN Absent
    ELSE c[CHOOSE i \in S : \A j \in S : c[i].date >= c[j].date]

\* the $group pipeline: the number of documents of each city_key
CityCounts(c) ==
    [city \in {c[i].city_key : i \in 1..Len(c)} |->
        Cardinality(CityRecords(c, city))]

\* the entry of date_coverage for a city
CoverageEntry(first_record, last_record, actual_records) ==
    LET total_days == last_record.date - first_record.date + 1
    IN  [start_date |-> first_record.date, end_date |-> last_record.date,
         total_days |-> total_days,
         missing_days |-> total_days - actual_records,
         coverage_percentage |-> RoundDiv(actual_records * 10000, total_days)]

GsLocals ==
    [city_counts |-> <<>>, todo |-> TrackedCities, first_record |-> Absent,
     last_record |-> Absent, date_coverage |-> <<>>, earliest |-> Absent,
     latest |-> Absent]

GsPcs == {"gs_collstats", "gs_aggregate", "gs_first", "gs_last", "gs_count",
          "gs_earliest", "gs_latest", "gs_total"}

\* the city of the current iteration of the loop over tracked_cities
GsCity(me) == CHOOSE city \in me.data.todo : TRUE

\* the step after the iteration for GsCity(me)
GsAfterCity(me) ==
    IF me.data.todo \ {GsCity(me)} = {} THEN "gs_earliest" ELSE "gs_first"

StartGetStats(p) ==
    /\ proc[p].pc = "idle"
    /\ ops < MaxOps
    /\ ops' = ops + 1
    /\ proc' = [proc EXCEPT ![p] =
                   [IdleProc EXCEPT !.op = "mongo_stats", !.pc = "gs_collstats",
                                     !.data = GsLocals]]
    /\ UNCHANGED <<cache, coll, indexed, resp, prev, written, seed, today, info>>

\* stats = await self.db.command("collStats", ...)
GsCollStats(p) ==
    /\ proc[p].pc = "gs_collstats"
    /\ proc' = [proc EXCEPT ![p].pc = "gs_aggregate"]
    /\ UNCHANGED <<cache, coll, indexed, resp, prev, written, ops, seed, today,
                       info>>

\* city_counts = {... async for doc in self.collection.aggregate(pipeline)}
GsAggregate(p) ==
    /\ proc[p].pc = "gs_aggregate"
    /\ proc' = [proc EXCEPT ![p].data.city_counts = CityCounts(coll),
                            ![p].pc = IF TrackedCities = {} THEN "gs_earliest"
                                      ELSE "gs_first"]
    /\ UNCHANGED <<cache, coll, indexed, resp, prev, written, ops, seed, today,
                       info>>

GsFirst(p) ==
    LET me == proc[p]
    IN  /\ me.pc = "gs_first"
        /\ proc' = [proc EXCEPT
                       ![p].data.first_record =
                           FirstByDate(coll, CityRecords(coll, GsCity(me))),
                       ![p].pc = "gs_last"]
        /\ UNCHANGED <<cache, coll, indexed, resp, prev, written, ops, seed,
                       today, info>>

GsLast(p) ==
    LET me == proc[p]
        last_record == LastByDate(coll, CityRecords(coll, GsCity(me)))
    IN  /\ me.pc = "gs_last"
        /\ IF me.data.first_record # Absent /\ last_record # Absent
           THEN proc' = [proc EXCEPT ![p].data.last_record = last_record,
                                     ![p].pc = "gs_count"]
           ELSE proc' = [proc EXCEPT ![p].data.todo = @ \ {GsCity(me)},
                                     ![p].pc = GsAfterCity(me)]
        /\ UNCHANGED <<cache, coll, indexed, resp, prev, written, ops, seed,
                       today, info>>

\* actual_records = await self.collection.count_documents({"city_key": city})
GsCount(p) ==
    LET me == proc[p]
        city == GsCity(me)
        actual_records == Cardinality(CityRecords(coll, city))
        entry == CoverageEntry(me.data.first_record, me.data.last_record,
                               actual_records)
    IN  /\ me.pc = "gs_count"
        /\ proc' = [proc EXCEPT
                       ![p].data.date_coverage =
                           [c \in (DOMAIN @) \cup {city} |->
                               IF c = city THEN entry ELSE @[c]],
                       ![p].data.todo = @ \ {city},
                       ![p].pc = GsAfterCity(me)]
        /\ UNCHANGED <<cache, coll, indexed, resp, prev, written, ops, seed,
                       today, info>>

GsEarliest(p) ==
    /\ proc[p].pc = "gs_earliest"
    /\ proc' = [proc EXCEPT
                   ![p].data.earliest = FirstByDate(coll, 1..Len(coll)),
                   ![p].pc = "gs_latest"]
    /\ UNCHANGED <<cache, coll, indexed, resp, prev, written, ops, seed, today,
                       info>>

GsLatest(p) ==
    /\ proc[p].pc = "gs_latest"
    /\ proc' = [proc EXCEPT
                   ![p].data.latest = LastByDate(coll, 1..Len(coll)),
                   ![p].pc = "gs_total"]
    /\ UNCHANGED <<cache, coll, indexed, resp, prev, written, ops, seed, today,
                       info>>

\* return MongoDBStats(status="operational", total_records=await
\* self.collection.count_documents({}), ...)
GsReturn(p) ==
    LET me == proc[p]
    IN  /\ me.pc = "gs_total"
        /\ Complete(p, 200, "OK",
                    [status |-> "operational", total_records |-> Len(coll),
                     earliest_record |-> IF me.data.earliest = Absent THEN Absent
                                         ELSE [date |-> me.data.earliest.date],
                     latest_record |-> IF me.data.latest = Absent THEN Absent
                                       ELSE [date |-> me.data.latest.date],
                     records_by_city |-> me.data.city_counts,
                     cities_tracked |-> TrackedCities,
                     date_coverage |-> me.data.date_coverage],
                    me.trace)
        /\ UNCHANGED <<cache, coll, indexed, written, ops, seed, today, info>>

\* except Exception: any of the awaited store operations raises
GsFail(p) ==
    LET me == proc[p]
    IN  /\ me.pc \in GsPcs
        /\ Complete(p, 200, "OK",
                    [status |-> "error", total_records |-> 0,
                     earliest_record |-> Absent, latest_record |-> Absent,
                     records_by_city |-> <<>>, cities_tracked |-> TrackedCities,
                     date_coverage |-> <<>>],
                    Append(me.trace, Ev("store_fail", 0)))
        /\ UNCHANGED <<cache, coll, indexed, written, ops, seed, today, info>>

(***************************************************************************)
(* Specifications.  Spec: one task, so requests and backfill runs execute  *)
(* one after another.                                                      *)
(***************************************************************************)
RequestCities == Cities \cup {"unknown,xx"}
HistDays == {today - 1, today, MinDate - 1, MalformedDate}
ForecastReqDays == {today + 1, today + 2, today + ForecastLimit + 1,
                    MalformedDate}
StatsRanges == {<<today - 2, today - 1>>, <<today - 1, today - 2>>,
                <<today - 1, today>>, <<MalformedDate, today - 1>>}

Next ==
    \/ \E c \in TrackedCities \cup {"unknown,xx"}, u \in Units :
          StartCurrent(1, c, u)
    \/ \E c \in RequestCities, d \in HistDays, u \in Units, t \in TimesOfDay :
          StartHistorical(1, c, d, u, t)
    \/ \E c \in TrackedCities \cup {"unknown,xx"}, d \in ForecastReqDays,
          u \in Units, t \in TimesOfDay : StartForecast(1, c, d, u, t)
    \/ \E c \in TrackedCities \cup {"unknown,xx"}, r \in StatsRanges,
          u \in Units, t \in TimesOfDay : StartStats(1, c, r[1], r[2], u, t)
    \/ \E c \in RequestCities, n \in 1..MaxDaysBack : StartBackfill(1, c, n)
    \/ CacheGetStep(1)
    \/ StoreGetStep(1)
    \/ UpstreamOk(1)
    \/ \E f \in UpstreamFailures : UpstreamFail(1, f)
    \/ CacheSetStep(1)
    \/ StorePutStep(1)
    \/ StoreInsertStep(1)
    \/ BfCheck(1)
    \/ BfFetchOk(1)
    \/ BfFetchFail(1)
    \/ BfStore(1)
    \/ BfStoreFail(1)
    \/ BfSleep(1)
    \/ BfReturn(1)
    \/ \E k \in DOMAIN cache : Expire(k)

Spec == Init /\ [][Next]_vars

\* SpecLive: the event loop resumes a handler whenever what it awaits has
\* answered, and Redis, MongoDB and the provider answer every call (with a
\* result or an error).
LiveNext ==
    \/ StartCurrent(1, "london,gb", "metric")
    \/ \E c \in Cities, u \in {"standard", "metric"} :
          StartHistorical(1, c, today - 1, u, 1)
    \/ \E d \in {today + 2, today + 4, today + ForecastLimit} :
          StartForecast(1, "london,gb", d, "metric", 0)
    \/ StartStats(1, "london,gb", today - 2, today - 1, "metric", 1)
    \/ CacheGetStep(1)
    \/ StoreGetStep(1)
    \/ UpstreamOk(1)
    \/ UpstreamFail(1, 500)
    \/ CacheSetStep(1)
    \/ StorePutStep(1)
    \/ StoreInsertStep(1)
    \/ \E k \in DOMAIN cache : Expire(k)

SpecLive == Init /\ [][LiveNext]_vars /\ WF_vars(LiveNext)

(***************************************************************************)
(* SpecStore: MongoWeatherStorage.store_weather and get_weather called     *)
(* directly, for tracked and untracked cities, with readings the weather   *)
(* client produces.                                                        *)
(***************************************************************************)
ApiEvent(op, city, d, units, data, trace) ==
    [op |-> op, city |-> city, date |-> <<d, d>>, units |-> units,
     status |-> 200, code |-> "OK", data |-> data, trace |-> trace]

ApiStoreWeather(city, d, units) ==
    LET weather == UpHistorical(RawOf(seed, city, d), d, units)
        k == <<city, d>>
    IN  /\ \A p \in Procs : proc[p].pc = "idle"
        /\ coll' = StoreWeather(coll, weather, city)
        /\ written' = IF StoreWrites(weather, city)
                       THEN NoteWrite(written, k, Record(weather, city))
                       ELSE written
        /\ resp' = ApiEvent("store_weather", city, d, units, [before |-> coll],
                            IF StoreWrites(weather, city)
                            THEN <<Ev("store_upsert", d)>> ELSE <<>>)
        /\ prev' = resp
        /\ UNCHANGED <<cache, indexed, proc, ops, seed, today, info>>

ApiGetWeather(city, d, units) ==
    LET got == GetWeather(coll, city, d)
    IN  /\ \A p \in Procs : proc[p].pc = "idle"
        /\ resp' = ApiEvent("get_weather", city, d, units, got.result,
                            IF got.read THEN <<Ev("store_find", d)>> ELSE <<>>)
        /\ prev' = resp
        /\ UNCHANGED <<cache, coll, indexed, proc, written, ops, seed, today, info>>

StoreDays == {today - 2, today - 1}

StoreNext ==
    \/ \E c \in Cities, d \in StoreDays, u \in Units : ApiStoreWeather(c, d, u)
    \/ \E c \in Cities, d \in StoreDays, u \in {"standard", "metric"} :
          ApiGetWeather(c, d, u)

SpecStore == Init /\ [][StoreNext]_vars

(***************************************************************************)
(* SpecCache: one task; requests, the admin's clear_city_cache, strings    *)
(* left in Redis by another writer, and expiry.                            *)
(***************************************************************************)
CorruptVals ==
    {[raw |-> ""], [raw |-> "not json"], [raw |-> "[]"],
     [units |-> "standard"],
     [units |-> "kelvin", date |-> today - 1, tmin |-> 0, tmax |-> 0,
      afternoon |-> 0, night |-> 0, wind |-> 0]}

CorruptKeys == {GetKey("london,gb", <<today - 1, today - 1>>, "historical")}

ClearCities == {"london,gb", "tokyo,jp", "*"}

CacheNext ==
    \/ \E c \in Cities, u \in {"standard", "metric"} :
          StartHistorical(1, c, today - 1, u, 1)
    \/ StartCurrent(1, "london,gb", "metric")
    \/ CacheGetStep(1)
    \/ StoreGetStep(1)
    \/ UpstreamOk(1)
    \/ CacheSetStep(1)
    \/ StorePutStep(1)
    \/ StoreInsertStep(1)
    \/ \E k \in CorruptKeys, v \in CorruptVals : Corrupt(k, v)
    \/ \E c \in ClearCities : ClearCityCache(c)
    \/ \E k \in DOMAIN cache : Expire(k)

SpecCache == Init /\ [][CacheNext]_vars

(***************************************************************************)
(* SpecInfo: the requests and cache events of SpecCache, with get_stats    *)
(* called between them.                                                    *)
(***************************************************************************)
InfoNext ==
    \/ CacheNext
    \/ GetStats

SpecInfo == Init /\ [][InfoNext]_vars

(***************************************************************************)
(* SpecConc: two tasks run historical requests and backfill runs for the   *)
(* tracked cities concurrently; every await is a point of interleaving.    *)
(***************************************************************************)
ConcNext ==
    \/ \E p \in Procs, c \in TrackedCities, u \in Units :
          StartHistorical(p, c, today - 1, u, 1)
    \/ \E p \in Procs, c \in TrackedCities : StartBackfill(p, c, 1)
    \/ \E p \in Procs : CacheGetStep(p)
    \/ \E p \in Procs : StoreGetStep(p)
    \/ \E p \in Procs : UpstreamOk(p)
    \/ \E p \in Procs : CacheSetStep(p)
    \/ \E p \in Procs : StorePutStep(p)
    \/ \E p \in Procs : StoreInsertStep(p)
    \/ \E p \in Procs : BfCheck(p)
    \/ \E p \in Procs : BfFetchOk(p)
    \/ \E p \in Procs : BfStore(p)
    \/ \E p \in Procs : BfSleep(p)
    \/ \E p \in Procs : BfReturn(p)

SpecConc == Init /\ [][ConcNext]_vars

(***************************************************************************)
(* SpecConv: the converters of WeatherCache called directly.  The value    *)
(* under conversion is a temperature (thousandths), a wind speed           *)
(* (hundredths), a reading or statistics of the weather client; resp holds *)
(* the value first given, the current value and the unit systems passed.   *)
(***************************************************************************)
MaxConvCalls == 3
MaxConvIdx == 40

\* 0 degrees Celsius in each unit system
FreezingPoint(units) ==
    IF units = "standard" THEN KelvinOffset
    ELSE IF units = "imperial" THEN FahrenheitOffset
    ELSE 0

\* temperatures the client produces: rounded to two decimals, or the mean of
\* two such values (temp_avg), which can end in 5 thousandths
ConvTemperatures(units) == {FreezingPoint(units) + 5 * i : i \in 0..MaxConvIdx}

\* wind speeds the client produces: rounded to two decimals
ConvWindSpeeds == 0..(10 * MaxConvIdx)

ConvInput(kind, units, value) ==
    [op |-> "convert", kind |-> kind, orig |-> value, value |-> value,
     units |-> units, path |-> <<units>>]

ConvInputs(sd) ==
    UNION {{ConvInput("temperature", u, v) : v \in ConvTemperatures(u)} :
             u \in Units}
    \cup {ConvInput("wind_speed", u, v) : u \in Units, v \in ConvWindSpeeds}
    \cup {ConvInput("reading", u, UpHistorical(RawOf(sd, "london,gb", Today - 1),
                                               Today - 1, u)) : u \in Units}
    \cup {ConvInput("stats", u, UpStats(sd, "london,gb", Today - 2, Today - 1, u)) :
             u \in Units}

ConvInit ==
    /\ cache = <<>>
    /\ coll = <<>>
    /\ indexed = FALSE
    /\ proc = [p \in Procs |-> IdleProc]
    /\ seed \in 0..(Len(RawTable) - 1)
    /\ resp \in ConvInputs(seed)
    /\ prev = Absent
    /\ written = <<>>
    /\ ops = 0
    /\ today = Today
    /\ info = [keyspace_hits |-> 0, keyspace_misses |-> 0]

\* a converter returns: the call and its result are recorded
ConvReturn(to_units, result) ==
    /\ resp' = [resp EXCEPT !.value = result, !.units = to_units,
                            !.path = Append(@, to_units)]
    /\ prev' = resp
    /\ UNCHANGED <<cache, coll, indexed, proc, written, ops, seed, today, info>>

ConvertTemperatureCall(to_units) ==
    /\ resp.kind = "temperature"
    /\ Len(resp.path) <= MaxConvCalls
    /\ ConvReturn(to_units,
                  CacheConvertTemperature(resp.value, resp.units, to_units))

ConvertWindSpeedCall(to_units) ==
    /\ resp.kind = "wind_speed"
    /\ Len(resp.path) <= MaxConvCalls
    /\ ConvReturn(to_units,
                  CacheConvertWindSpeed(resp.value, resp.units, to_units))

ConvertUnitsCall(to_units) ==
    /\ resp.kind \in {"reading", "stats"}
    /\ Len(resp.path) <= MaxConvCalls
    /\ ConvReturn(to_units, ConvertUnits(resp.value, resp.units, to_units))

ConvNext ==
    \/ \E u \in Units : ConvertTemperatureCall(u)
    \/ \E u \in Units : ConvertWindSpeedCall(u)
    \/ \E u \in Units : ConvertUnitsCall(u)

SpecConv == ConvInit /\ [][ConvNext]_vars

(***************************************************************************)
(* SpecCoverage: get_stats of the store in one task while a backfill run   *)
(* writes records in the other.                                            *)
(***************************************************************************)
CoverageNext ==
    \/ \E c \in TrackedCities, n \in 1..MaxDaysBack : StartBackfill(1, c, n)
    \/ BfCheck(1)
    \/ BfFetchOk(1)
    \/ BfStore(1)
    \/ BfSleep(1)
    \/ BfReturn(1)
    \/ StartGetStats(2)
    \/ GsCollStats(2)
    \/ GsAggregate(2)
    \/ GsFirst(2)
    \/ GsLast(2)
    \/ GsCount(2)
    \/ GsEarliest(2)
    \/ GsLatest(2)
    \/ GsReturn(2)
    \/ GsFail(2)

SpecCoverage == Init /\ [][CoverageNext]_vars

(***************************************************************************)
(* SpecBackfill: backfill runs of one task.  The event loop resumes the    *)
(* run whenever the call it awaits has answered, and the store, the        *)
(* provider and the timer answer every await (with a result or an error).  *)
(***************************************************************************)
BackfillNext ==
    \/ \E c \in TrackedCities, n \in 1..MaxDaysBack : StartBackfill(1, c, n)
    \/ BfCheck(1)
    \/ BfFetchOk(1)
    \/ BfFetchFail(1)
    \/ BfStore(1)
    \/ BfStoreFail(1)
    \/ BfSleep(1)
    \/ BfReturn(1)

SpecBackfill == Init /\ [][BackfillNext]_vars /\ WF_vars(BackfillNext)

(***************************************************************************)
(* Vocabulary of the claims.                                               *)
(***************************************************************************)
Abs(v) == IF v < 0 THEN 0 - v ELSE v

HasEv(trace, name) == \E i \in 1..Len(trace) : trace[i].ev = name

HasEvOn(trace, name, day) ==
    \E i \in 1..Len(trace) : trace[i].ev = name /\ trace[i].day = day

\* two readings agree within 0.01 on every temperature and on the wind speed
CloseValues(a, b) ==
    /\ Abs(a.tmin - b.tmin) <= 10
    /\ Abs(a.tmax - b.tmax) <= 10
    /\ Abs(a.afternoon - b.afternoon) <= 10
    /\ Abs(a.night - b.night) <= 10
    /\ Abs(a.wind - b.wind) <= 1

SameValues(a, b) ==
    /\ a.tmin = b.tmin
    /\ a.tmax = b.tmax
    /\ a.afternoon = b.afternoon
    /\ a.night = b.night
    /\ a.wind = b.wind

\* a historical or stored record read as a reading
AsReading(record) ==
    Reading("standard", record.date, record.temperature_min,
            record.temperature_max, record.temperature_afternoon,
            record.temperature_night, record.wind_speed)

\* the reading the provider gives for (city, day) in the given units
Direct(city, day, units) == UpHistorical(RawOf(seed, city, day), day, units)

IsResponse(r, op) == r # Absent /\ r.op = op

OkResponse(r, op) == r # Absent /\ r.op = op /\ r.status = 200

\* the latest two events are an upstream-served historical request and the
\* same request again, with nothing in between
RepeatedHistorical ==
    /\ OkResponse(prev, "historical")
    /\ HasEv(prev.trace, "upstream")
    /\ IsResponse(resp, "historical")
    /\ resp.city = prev.city
    /\ resp.date = prev.date
    /\ resp.units = prev.units

UpstreamServedFirst ==
    (OkResponse(resp, "historical") /\ HasEv(resp.trace, "upstream"))
        => /\ SameValues(resp.data, Direct(resp.city, resp.date[1], resp.units))
           /\ resp.data.units = resp.units
           /\ resp.data.meta.cached = FALSE

\* C1 as stated: a historical request served by upstream returns the
\* provider's reading in the requested units with cached=false, and the same
\* request made again right after it returns exactly the same values with
\* cached=true and without an upstream call.
C1_SecondEqualsFirst ==
    /\ UpstreamServedFirst
    /\ RepeatedHistorical
         => /\ resp.status = 200
            /\ resp.data.meta.cached = TRUE
            /\ ~HasEv(resp.trace, "upstream")
            /\ resp.data.units = prev.data.units
            /\ SameValues(resp.data, prev.data)

\* C1 amended: as above, the second response agreeing with the first within
\* 0.01 on every value (the cache holds the reading converted to standard
\* units and rounded, and converts it back).
C1_SecondWithinTolerance ==
    /\ UpstreamServedFirst
    /\ RepeatedHistorical
         => /\ resp.status = 200
            /\ resp.data.meta.cached = TRUE
            /\ ~HasEv(resp.trace, "upstream")
            /\ resp.data.units = prev.data.units
            /\ CloseValues(resp.data, prev.data)

C1_Witness ==
    /\ RepeatedHistorical
    /\ resp.status = 200
    /\ resp.data.meta.cached = TRUE
    /\ resp.units = "imperial"
    /\ ~SameValues(resp.data, prev.data)

\* C2: every successful historical response for a tracked city, whichever
\* tier served it and whatever requests came before, carries the values the
\* provider gives for that city, date and unit system, within 0.01.
C2_TierIndependentValues ==
    (OkResponse(resp, "historical") /\ IsTrackedCity(resp.city))
        => CloseValues(resp.data, Direct(resp.city, resp.date[1], resp.units))

\* C3: every historical record holds the values of the standard-unit
\* reading of its city and date, whatever units the request that wrote it
\* asked for.
C3_StoreCanonical ==
    \A i \in 1..Len(coll) :
        CloseValues(AsReading(coll[i]),
                    Direct(coll[i].city_key, coll[i].date, "standard"))

\* the reading in standard units that the provider's data for a cache key is
CanonicalFor(key) ==
    IF key[3] = "current"
    THEN UpCurrent(RawOf(seed, key[1], today), RawOf(seed, key[1], today + 3),
                   today, "standard")
    ELSE Direct(key[1], key[2][1], "standard")

\* C4: every cache entry is tagged units=standard and holds its
\* temperatures in Kelvin and its wind speed in m/s: for a historical or
\* current key, the values of the standard-unit reading of the provider.
C4_CacheCanonical ==
    \A key \in DOMAIN cache :
        /\ cache[key].val.units = "standard"
        /\ key[3] \in {"historical", "current"}
              => CloseValues(cache[key].val, CanonicalFor(key))

\* C5: whenever a cache entry for (C, D, historical) and a historical
\* record for (C, D) both exist, they hold the same values within 0.01.
C5_TiersCoherent ==
    \A key \in DOMAIN cache :
        (key[3] = "historical" /\ Matches(coll, key[1], key[2][1]) # {})
            => CloseValues(cache[key].val,
                           AsReading(FindOne(coll, key[1], key[2][1])))

\* a historical request that missed the cache and found a record
StoreHit(r) ==
    /\ IsResponse(r, "historical")
    /\ HasEv(r.trace, "store_find")
    /\ ~HasEv(r.trace, "upstream")

\* C6: a historical request that misses the cache and finds a record in
\* the store succeeds in every unit system, returns the record converted to
\* the requested units with store provenance, has written it to the cache
\* and has made no upstream call.
C6_StoreHitServes ==
    StoreHit(resp)
        => /\ resp.status = 200
           /\ resp.data.units = resp.units
           /\ SameValues(resp.data,
                         ConvertUnits(AsReading(FindOne(coll, resp.city,
                                                        resp.date[1])),
                                      "standard", resp.units))
           /\ resp.data.meta.provider = "OpenMeteo [MongoDB Storage]"
           /\ resp.data.meta.cached = FALSE
           /\ HasEv(resp.trace, "cache_set")
           /\ GetKey(resp.city, resp.date, "historical") \in DOMAIN cache

\* C7: a stats request that misses the cache and gets its statistics from
\* upstream returns them and leaves them in the cache under
\* (C, start_end, stats); and no stats request is answered without either a
\* cache hit or a cache write.
C7_StatsCached ==
    (IsResponse(resp, "stats") /\ HasEv(resp.trace, "upstream")
       /\ resp.code \notin {"WEATHER_API_ERROR", "LOCATION_NOT_FOUND"})
        => /\ resp.status = 200
           /\ GetKey(resp.city, resp.date, "stats") \in DOMAIN cache

\* C8: for a city that is not tracked, store_weather writes nothing and
\* leaves the collection as it was, get_weather returns absent without
\* reading the collection, and the collection never holds a document of
\* such a city.
C8_UntrackedNoOp ==
    /\ \A i \in 1..Len(coll) : IsTrackedCity(coll[i].city_key)
    /\ (IsResponse(resp, "store_weather") /\ ~IsTrackedCity(resp.city))
          => /\ resp.trace = <<>>
             /\ coll = resp.data.before
    /\ (IsResponse(resp, "get_weather") /\ ~IsTrackedCity(resp.city))
          => /\ resp.trace = <<>>
             /\ resp.data = Absent

C8_Witness ==
    /\ IsResponse(prev, "store_weather")
    /\ IsResponse(resp, "get_weather")
    /\ ~IsTrackedCity(resp.city)
    /\ prev.city = resp.city
    /\ prev.date = resp.date
    /\ Len(coll) > 0

\* C9: under every interleaving of the store writes of requests and
\* backfill runs, the collection holds at most one document per
\* (city_key, date), and that document is the record of the latest write.
C9_OneRecordPerKey ==
    /\ ~HasDuplicates(coll)
    /\ \A k \in DOMAIN written : FindOne(coll, k[1], k[2]) = written[k]

\* the outcome the manifest lists for a day, Absent when it lists none
OutcomeOf(processed, day) ==
    IF \E i \in 1..Len(processed) : processed[i].date = day
    THEN processed[CHOOSE i \in 1..Len(processed) : processed[i].date = day]
    ELSE Absent

SkippedExisting(city, store0, processed, trace, day) ==
    Matches(store0, city, day) # {}
        => /\ OutcomeOf(processed, day)
                = [date |-> day, status |-> "skipped", reason |-> "data_exists"]
           /\ ~HasEvOn(trace, "upstream", day)
           /\ FindOne(coll, city, day) = FindOne(store0, city, day)

\* C10: in a backfill run for a tracked city, every day of the range that
\* had a record when the run started is reported skipped with reason
\* data_exists, no upstream call is made for it, and its record is as it
\* was: for the days a running backfill has passed and for every day of a
\* returned manifest.
C10_SkipExisting ==
    /\ \A p \in Procs :
          proc[p].op = "backfill"
            => \A day \in proc[p].date[1]..(proc[p].cur - 1) :
                  SkippedExisting(proc[p].city, proc[p].store0,
                                  proc[p].processed, proc[p].trace, day)
    /\ OkResponse(resp, "backfill")
          => \A day \in resp.date[1]..resp.date[2] :
                SkippedExisting(resp.city, resp.data.store0,
                                resp.data.processed_dates, resp.trace, day)

C10_Witness ==
    /\ OkResponse(resp, "backfill")
    /\ \E day \in resp.date[1]..resp.date[2] :
          /\ Matches(resp.data.store0, resp.city, day) # {}
          /\ OutcomeOf(resp.data.processed_dates, day) # Absent
    /\ \E day \in resp.date[1]..resp.date[2] :
          HasEvOn(resp.trace, "upstream", day)

\* how many entries of a sequence satisfy: entry.date = day
CountDate(entries, day) ==
    Cardinality({i \in 1..Len(entries) : entries[i].date = day})

CountStatus(entries, status) ==
    Cardinality({i \in 1..Len(entries) : entries[i].status = status})

\* the days first..last of a run: each is listed exactly once, as processed
\* or as failed; a failed day carries an error text and made a failing call
AccountedFor(processed, failed, trace, first, last) ==
    /\ \A day \in first..last :
          CountDate(processed, day) + CountDate(failed, day) = 1
    /\ \A i \in 1..Len(failed) :
          /\ failed[i].error # ""
          /\ \/ HasEvOn(trace, "upstream", failed[i].date)
             \/ HasEvOn(trace, "store_fail", failed[i].date)
    /\ \A i \in 1..Len(processed) : processed[i].date \in first..last
    /\ \A i \in 1..Len(failed) : failed[i].date \in first..last

\* the last day a running backfill has an outcome for
DoneUpTo(me) == IF me.pc = "bf_sleep" THEN me.cur ELSE me.cur - 1

\* C11: a failure of the upstream call or of the store write on one date of
\* a backfill run is recorded as failed with its error text and the run goes
\* on: every date of the range is listed exactly once across the processed
\* and the failed outcomes, and with one failing date and no record there
\* before, the manifest reports N-1 successes and 1 failure for its N dates.
C11_PartialFailure ==
    /\ \A p \in Procs :
          proc[p].op = "backfill"
            => AccountedFor(proc[p].processed, proc[p].failed, proc[p].trace,
                            proc[p].date[1], DoneUpTo(proc[p]))
    /\ IsResponse(resp, "backfill") /\ resp.trace # <<>>
          => /\ resp.status = 200
             /\ AccountedFor(resp.data.processed_dates, resp.data.failed_dates,
                             resp.trace, resp.date[1], resp.date[2])
             /\ resp.data.days_processed + resp.data.days_failed
                   = resp.date[2] - resp.date[1] + 1
             /\ (resp.data.days_failed = 1
                   /\ \A day \in resp.date[1]..resp.date[2] :
                         Matches(resp.data.store0, resp.city, day) = {})
                  => CountStatus(resp.data.processed_dates, "success")
                        = resp.date[2] - resp.date[1]

C11_Witness ==
    /\ OkResponse(resp, "backfill")
    /\ resp.date[2] - resp.date[1] + 1 >= 3
    /\ resp.data.days_failed = 1
    /\ resp.data.failed_dates[1].date = resp.date[1] + 1
    /\ CountStatus(resp.data.processed_dates, "success") = 2

\* a step in which a request or a backfill run of kind op is refused at entry
RejectionStep(op) ==
    /\ ops' # ops
    /\ proc' = proc
    /\ resp'.op = op

\* a step that reads and writes no tier
TiersUntouched ==
    /\ cache' = cache
    /\ coll' = coll
    /\ indexed' = indexed
    /\ written' = written
    /\ resp'.trace = <<>>

BackfillRefusals ==
    /\ \A p \in Procs :
          proc[p].op = "backfill" => IsTrackedCity(proc[p].city)
    /\ (IsResponse(resp, "backfill") /\ ~KnownCity(resp.city))
          => /\ resp.status = 404
             /\ resp.code = "CITY_NOT_FOUND"
             /\ resp.trace = <<>>
    /\ (IsResponse(resp, "backfill") /\ KnownCity(resp.city)
           /\ ~IsTrackedCity(resp.city))
          => /\ resp.status = 400
             /\ resp.code = "CITY_NOT_TRACKED"
             /\ resp.trace = <<>>

\* C12: a backfill for an unknown city fails with 404 CITY_NOT_FOUND and one
\* for a known city that is not tracked with 400 CITY_NOT_TRACKED; no run is
\* ever under way for such a city, and the step that refuses it makes no
\* upstream call and reads and writes neither the cache nor the store.
C12_BackfillRejection ==
    /\ []BackfillRefusals
    /\ [][(RejectionStep("backfill") /\ ~IsTrackedCity(resp'.city))
             => TiersUntouched]_vars

C12_Witness ==
    /\ IsResponse(prev, "backfill")
    /\ prev.code = "CITY_NOT_FOUND"
    /\ IsResponse(resp, "backfill")
    /\ resp.code = "CITY_NOT_TRACKED"

\* the latest two events are a backfill run without a failed date and a run
\* for the same city and range, with nothing in between
RepeatedBackfill ==
    /\ OkResponse(prev, "backfill")
    /\ prev.data.days_failed = 0
    /\ IsResponse(resp, "backfill")
    /\ resp.city = prev.city
    /\ resp.date = prev.date

\* C13: a backfill run that follows, with nothing in between, a run over the
\* same range that had no failed date reports every date as skipped, makes
\* no upstream call and leaves the collection as it was.
C13_BackfillIdempotent ==
    RepeatedBackfill
        => /\ resp.status = 200
           /\ resp.data.days_failed = 0
           /\ resp.data.days_processed = resp.date[2] - resp.date[1] + 1
           /\ \A day \in resp.date[1]..resp.date[2] :
                 OutcomeOf(resp.data.processed_dates, day)
                    = [date |-> day, status |-> "skipped",
                       reason |-> "data_exists"]
           /\ ~HasEv(resp.trace, "upstream")
           /\ ~HasEv(resp.trace, "store_upsert")
           /\ coll = resp.data.store0

C13_Witness ==
    /\ RepeatedBackfill
    /\ resp.status = 200
    /\ resp.date[2] - resp.date[1] + 1 >= 3
    /\ CountStatus(prev.data.processed_dates, "success") >= 3
    /\ CountStatus(resp.data.processed_dates, "skipped") >= 3

\* the latest two events are clear_city_cache calls for one city
RepeatedClear ==
    /\ IsResponse(prev, "clear_city_cache")
    /\ IsResponse(resp, "clear_city_cache")
    /\ resp.city = prev.city

\* C14: the second of two clear_city_cache calls for a city with no cache
\* write in between returns success with keys_removed = 0, and a call for a
\* city without entries returns success with keys_removed = 0; every call
\* returns success, and no entry of the city is there until the next write.
C14_ClearIdempotent ==
    /\ RepeatedClear
          => /\ resp.status = 200
             /\ resp.data.status = "success"
             /\ resp.data.keys_removed = 0
    /\ IsResponse(resp, "clear_city_cache")
          => /\ resp.status = 200
             /\ resp.data.status = "success"
             /\ (\A key \in DOMAIN resp.data.before : key[1] # resp.city)
                   /\ resp.city # "*"
                  => resp.data.keys_removed = 0
             /\ (\A p \in Procs : proc[p].pc = "idle")
                  => \A key \in DOMAIN cache : key[1] # resp.city

C14_Witness ==
    /\ RepeatedClear
    /\ resp.city = "london,gb"
    /\ prev.data.keys_removed = 2
    /\ resp.data.keys_removed = 0
    /\ DOMAIN resp.data.before # {}

\* task p reads, in this step, a cache entry that holds no valid payload
CorruptRead(p) ==
    LET key == GetKey(proc[p].city, proc[p].date, proc[p].op)
    IN  /\ proc[p].pc = "cache_get"
        /\ proc'[p] # proc[p]
        /\ key \in DOMAIN cache
        /\ IsRaw(cache[key].val) \/ ~ValidPayload(cache[key].val, proc[p].op)

\* C15: a cache read that finds a string holding no valid payload (invalid
\* JSON, JSON of the wrong shape, missing or ill-typed fields) deletes the
\* entry, raises nothing, and the request goes on to the next tier as on a
\* miss.
C15_CorruptIsMiss ==
    [][\A p \in Procs :
          CorruptRead(p)
            => /\ GetKey(proc[p].city, proc[p].date, proc[p].op)
                     \notin DOMAIN cache'
               /\ proc'[p].pc \in {"store_get", "upstream"}]_vars

RequestKinds == {"current", "historical", "forecast", "stats"}

\* the days from 2022-01-01 to yesterday
InHistoricalWindow(d) == DateParses(d) /\ MinDate <= d /\ d <= today - 1

\* the days from tomorrow to 7 days ahead
InForecastWindow(d) ==
    DateParses(d) /\ today + 1 <= d /\ d <= today + ForecastLimit

\* r (a task or a response) is a request validation has to refuse
BadRequest(r) ==
    \/ ~KnownCity(r.city)
    \/ r.op = "historical" /\ ~InHistoricalWindow(r.date[1])
    \/ r.op = "forecast" /\ ~InForecastWindow(r.date[1])
    \/ r.op = "stats" /\ \/ ~InHistoricalWindow(r.date[1])
                          \/ ~InHistoricalWindow(r.date[2])
                          \/ r.date[1] > r.date[2]

RefusedBeforeTiers ==
    /\ \A p \in Procs :
          proc[p].op \in RequestKinds => ~BadRequest(proc[p])
    /\ (resp # Absent /\ resp.op \in RequestKinds /\ BadRequest(resp))
          => /\ resp.status \in {400, 404}
             /\ resp.trace = <<>>

\* C16: a request with an unknown city, a malformed date, a historical date
\* outside [2022-01-01, yesterday], a forecast date outside [tomorrow, 7
\* days ahead], or a stats range that is reversed or leaves the historical
\* window is answered with a client error; it is never under way in a
\* handler, and the step that refuses it reads and writes no tier.
C16_ValidationBeforeTiers ==
    /\ []RefusedBeforeTiers
    /\ [][(ops' # ops /\ proc' = proc /\ resp'.op \in RequestKinds)
             => TiersUntouched]_vars

C16_Witness ==
    /\ IsResponse(prev, "historical")
    /\ prev.code = "INVALID_DATE_FORMAT"
    /\ IsResponse(resp, "stats")
    /\ resp.code = "INVALID_DATE_RANGE"
    /\ resp.date[1] > resp.date[2]
    /\ resp.status = 400

\* C17: at every time of day validation accepts a forecast request exactly
\* when its date lies between tomorrow and 7 days ahead, inclusive: a
\* request under way has its date in the window, and no request with its
\* date in the window is refused as INVALID_DATE.
C17_ForecastWindow ==
    /\ \A p \in Procs :
          proc[p].op = "forecast" => InForecastWindow(proc[p].date[1])
    /\ (IsResponse(resp, "forecast") /\ resp.code = "INVALID_DATE")
          => ~InForecastWindow(resp.date[1])

UpstreamErrors ==
    {"LOCATION_NOT_FOUND", "WEATHER_API_ERROR", "FORECAST_NOT_AVAILABLE",
     "IndexError"}

\* the response of a request whose upstream call failed
UpstreamFailed(r) ==
    /\ r # Absent
    /\ r.op \in RequestKinds
    /\ r.code \in UpstreamErrors

FailurePropagates ==
    UpstreamFailed(resp)
        => /\ resp.status \in {400, 404, 500}
           /\ resp.data = Absent
           /\ ~HasEv(resp.trace, "cache_set")
           /\ ~HasEv(resp.trace, "store_upsert")

\* C18: when the upstream call of a request fails, the request ends with the
\* error, it has made no cache write and no store write, and the step in
\* which the call fails leaves the cache and the collection as they were.
C18_UpstreamFailureFrame ==
    /\ []FailurePropagates
    /\ [][\A p \in Procs :
            (proc[p].pc = "upstream" /\ proc'[p].pc = "idle")
              => /\ UpstreamFailed(resp')
                 /\ cache' = cache
                 /\ coll' = coll
                 /\ written' = written]_vars

C18_Witness ==
    /\ UpstreamFailed(resp)
    /\ resp.op = "historical"
    /\ IsTrackedCity(resp.city)
    /\ resp.code = "WEATHER_API_ERROR"
    /\ HasEv(resp.trace, "store_find")
    /\ DOMAIN cache # {}

CountEv(trace, name) ==
    Cardinality({i \in 1..Len(trace) : trace[i].ev = name})

\* where the first event of that name stands in the trace
PosEv(trace, name) ==
    SetMin({i \in 1..Len(trace) : trace[i].ev = name})

BeforeEv(trace, a, b) ==
    (HasEv(trace, a) /\ HasEv(trace, b)) => PosEv(trace, a) < PosEv(trace, b)

\* the calls of r (a task or a response): each tier at most once, the cache
\* first, the store only for a historical request of a tracked city and
\* before upstream, the writes after the reads
TierOrder(r) ==
    /\ \A name \in {"cache_get", "store_find", "upstream", "cache_set",
                     "store_upsert"} : CountEv(r.trace, name) <= 1
    /\ r.trace # <<>> => r.trace[1].ev = "cache_get"
    /\ HasEv(r.trace, "store_find")
          => r.op = "historical" /\ IsTrackedCity(r.city)
    /\ (HasEv(r.trace, "upstream") /\ r.op = "historical"
           /\ IsTrackedCity(r.city)) => HasEv(r.trace, "store_find")
    /\ BeforeEv(r.trace, "store_find", "upstream")
    /\ BeforeEv(r.trace, "store_find", "cache_set")
    /\ BeforeEv(r.trace, "upstream", "cache_set")
    /\ BeforeEv(r.trace, "cache_set", "store_upsert")

TiersInOrder ==
    /\ \A p \in Procs : proc[p].op \in RequestKinds => TierOrder(proc[p])
    /\ (resp # Absent /\ resp.op \in RequestKinds)
          => /\ TierOrder(resp)
             /\ resp.status = 200 <=> resp.data # Absent
             /\ resp.status = 200
                  => /\ resp.data.meta.cached
                          => resp.trace = <<Ev("cache_get", resp.date[1])>>
                     /\ resp.data.meta.provider = "OpenMeteo [MongoDB Storage]"
                          => ~HasEv(resp.trace, "upstream")

\* a step in which a tier yields a value ends the consultation of the tiers
EarlyExit ==
    \A p \in Procs :
        /\ (proc[p].pc = "cache_get" /\ proc'[p] # proc[p]
              /\ CacheGetOutcome(cache, proc[p].city, proc[p].date, proc[p].op)
                    = "hit")
             => /\ proc'[p].pc = "idle"
                /\ resp'.status = 200
                /\ resp'.data.meta.cached
                /\ cache' = cache
                /\ coll' = coll
        /\ (proc[p].pc = "store_get" /\ proc'[p] # proc[p]
              /\ FindOne(coll, proc[p].city, proc[p].date[1]) # Absent)
             => proc'[p].pc \in {"cache_set", "idle"}

\* C19: every request consults the cache, then the store (only a historical
\* request of a tracked city), then upstream, each at most once, and stops at
\* the first tier that yields a value; a cache hit reads no store, calls no
\* upstream and writes nothing; and every request ends, either with a
\* reading or with an error.
C19_TierOrder ==
    /\ []TiersInOrder
    /\ [][EarlyExit]_vars
    /\ \A p \in Procs : (proc[p].pc # "idle") ~> (proc[p].pc = "idle")

C19_Witness ==
    /\ OkResponse(prev, "historical")
    /\ HasEv(prev.trace, "store_find")
    /\ HasEv(prev.trace, "upstream")
    /\ HasEv(prev.trace, "store_upsert")
    /\ OkResponse(resp, "historical")
    /\ resp.data.meta.cached
    /\ resp.trace = <<Ev("cache_get", resp.date[1])>>

\* the response of a request whose upstream call returned a result
UpstreamSatisfied(r) ==
    /\ r # Absent
    /\ r.op \in RequestKinds
    /\ HasEv(r.trace, "upstream")
    /\ r.code \notin UpstreamErrors

\* C20: a request satisfied by upstream has written the result to the cache
\* under (city, date, kind), whatever the kind, and has written it to the
\* store exactly when the kind is historical and the city is tracked; no
\* current, forecast or stats request writes the store.
C20_WriteThrough ==
    /\ UpstreamSatisfied(resp)
          => /\ resp.status = 200
             /\ HasEv(resp.trace, "cache_set")
             /\ GetKey(resp.city, resp.date, resp.op) \in DOMAIN cache
             /\ HasEv(resp.trace, "store_upsert")
                   <=> (resp.op = "historical" /\ IsTrackedCity(resp.city))
    /\ (resp # Absent /\ resp.op \in {"current", "forecast", "stats"})
          => ~HasEv(resp.trace, "store_upsert")
    /\ \A i \in 1..Len(coll) : IsTrackedCity(coll[i].city_key)

\* r is a reading or statistics returned to the caller of a request
Returned(r) == r # Absent /\ r.op \in RequestKinds /\ r.status = 200

\* the tier that served a returned response, from the calls it made
ServedBy(r) ==
    IF HasEv(r.trace, "upstream") THEN "upstream"
    ELSE IF HasEv(r.trace, "store_find") THEN "store"
    ELSE "cache"

\* C21 as stated: the cached flag is true exactly for the cache tier, the
\* data kind is the requested kind, and the provider label alone names the
\* serving tier: responses served by different tiers carry different labels.
C21_LabelNamesTier ==
    /\ Returned(resp)
          => /\ resp.data.meta.cached <=> ServedBy(resp) = "cache"
             /\ resp.data.meta.data_type = resp.op
    /\ (Returned(prev) /\ Returned(resp) /\ ServedBy(prev) # ServedBy(resp))
          => prev.data.meta.provider # resp.data.meta.provider

\* C21 amended: the cached flag is true exactly for the cache tier, the data
\* kind is the requested kind, and the cached flag together with the
\* provider label identifies the tier: (true, OpenMeteo) for the cache,
\* (false, OpenMeteo [MongoDB Storage]) for the store, (false, OpenMeteo)
\* for upstream.
C21_Provenance ==
    Returned(resp)
        => /\ resp.data.meta.cached <=> ServedBy(resp) = "cache"
           /\ resp.data.meta.data_type = resp.op
           /\ resp.data.meta.provider = "OpenMeteo [MongoDB Storage]"
                 <=> ServedBy(resp) = "store"
           /\ ServedBy(resp) \in {"cache", "upstream"}
                 => resp.data.meta.provider = "OpenMeteo"

C21_Witness ==
    /\ OkResponse(prev, "backfill")
    /\ Returned(resp)
    /\ ServedBy(resp) = "store"
    /\ resp.data.meta.provider = "OpenMeteo [MongoDB Storage]"
    /\ ~resp.data.meta.cached
    /\ resp.data.meta.data_type = "historical"


\* the fields of the provenance block (WeatherMeta)
CarriesMeta(val) == "meta" \in DOMAIN val

\* C22: provenance is never persisted: no cache entry written by
\* WeatherCache.set and no record written by store_weather contains the
\* provenance metadata, although the data handed to both carries it.
C22_ProvenanceNotPersisted ==
    /\ \A key \in DOMAIN cache : ~CarriesMeta(cache[key].val)
    /\ \A i \in 1..Len(coll) : ~CarriesMeta(coll[i])

C22_Witness ==
    /\ Returned(resp)
    /\ resp.op = "historical"
    /\ ServedBy(resp) = "upstream"
    /\ CarriesMeta(resp.data)
    /\ HasEv(resp.trace, "cache_set")
    /\ HasEv(resp.trace, "store_upsert")
    /\ GetKey(resp.city, resp.date, "historical") \in DOMAIN cache
    /\ Len(coll) > 0


\* 0.01 in the scale of a temperature (thousandths) or a wind speed
\* (hundredths)
Tolerance(kind) == IF kind = "temperature" THEN 10 ELSE 1

TwoDecimals(kind, v) == kind = "wind_speed" \/ v % 10 = 0

\* resp is the end of a round trip A -> canonical -> B -> A of a single value
RoundTrip(r) ==
    /\ r # Absent /\ r.op = "convert"
    /\ r.kind \in {"temperature", "wind_speed"}
    /\ Len(r.path) = 4
    /\ r.path[2] = "standard"
    /\ r.path[4] = r.path[1]

\* C23: for every value v with two decimals and every pair of unit systems
\* (A, B), for temperature and for wind speed, converting v from A to
\* canonical, from canonical to B and back from B to A reproduces v within
\* 0.01.
C23_RoundTrip ==
    (RoundTrip(resp) /\ TwoDecimals(resp.kind, resp.orig))
        => Abs(resp.value - resp.orig) <= Tolerance(resp.kind)

\* a round trip from imperial that comes back 0.01 away from where it started
C23_Witness ==
    /\ RoundTrip(resp)
    /\ TwoDecimals(resp.kind, resp.orig)
    /\ resp.path[1] = "imperial"
    /\ resp.path[3] = "metric"
    /\ Abs(resp.value - resp.orig) = Tolerance(resp.kind)


\* resp is the result of converting prev's value to prev's own unit system
SameSystemCall ==
    /\ prev # Absent /\ prev.op = "convert"
    /\ resp # Absent /\ resp.op = "convert"
    /\ resp.path = Append(prev.path, prev.units)

\* C24 as stated: converting a reading or statistics, or a single temperature
\* or wind-speed value, to its own unit system returns the same value
\* unchanged.
C24_IdentityAllValues == SameSystemCall => resp.value = prev.value

\* C24 amended: converting a reading or statistics to its own unit system
\* returns it unchanged; converting a single temperature or wind speed to
\* its own unit system returns it rounded to two decimals, which is the
\* same value when it has no more than two decimals.
C24_Identity ==
    SameSystemCall
        => /\ prev.kind \in {"reading", "stats"} => resp.value = prev.value
           /\ (prev.kind \in {"temperature", "wind_speed"}
                  /\ TwoDecimals(prev.kind, prev.value))
                 => resp.value = prev.value
           /\ prev.kind \in {"temperature", "wind_speed"}
                 => /\ TwoDecimals(resp.kind, resp.value)
                    /\ 2 * Abs(resp.value - prev.value) <= Tolerance(prev.kind)

C24_Witness ==
    /\ SameSystemCall
    /\ prev.kind = "temperature"
    /\ prev.units = "imperial"
    /\ TwoDecimals(prev.kind, prev.value)
    /\ prev.value # FreezingPoint("imperial")
    /\ resp.value = prev.value


Minutes(n) == n * 60
Hours(n) == n * 60 * 60

\* the range of time-to-live of a kind of data
TtlInRange(kind, ttl) ==
    IF kind = "current" THEN Minutes(15) <= ttl /\ ttl <= Minutes(30)
    ELSE IF kind = "forecast" THEN Hours(2) <= ttl /\ ttl <= Hours(12)
    ELSE IF kind = "historical" THEN Hours(24) <= ttl /\ ttl <= Hours(7 * 24)
    ELSE IF kind = "stats" THEN ttl = Hours(24)
    ELSE FALSE

ForecastKeys == {k \in DOMAIN cache : k[3] = "forecast"}

\* C25: every cache write uses a time-to-live determined by its data kind
\* and inside that kind's range (current 15 to 30 minutes, forecast 2 to 12
\* hours, historical 24 hours to 7 days, stats 24 hours), and a forecast
\* entry for a date 3 days ahead or less has a strictly shorter time-to-live
\* than one for a date farther out.
C25_TtlPolicy ==
    /\ \A k \in DOMAIN cache :
          /\ cache[k].ttl = GetTtl(k[3], k[2], today)
          /\ TtlInRange(k[3], cache[k].ttl)
    /\ \A k \in RequestKinds, d \in (today - 2)..(today + ForecastLimit) :
          TtlInRange(k, GetTtl(k, <<d, d>>, today))
    /\ \A near, far \in ForecastKeys :
          (near[2][1] - today <= 3 /\ far[2][1] - today > 3)
              => cache[near].ttl < cache[far].ttl

C25_Witness ==
    /\ \E near, far \in ForecastKeys :
          /\ near[2][1] - today <= 3
          /\ far[2][1] - today > 3
          /\ cache[near].ttl = Hours(2)
          /\ cache[far].ttl = Hours(4)
    /\ OkResponse(resp, "forecast")
    /\ HasEv(resp.trace, "cache_set")


\* the latest two events are historical requests of the two tasks for one
\* (city, date) that both missed the cache and the store and were both
\* served by the provider
ConcurrentMisses ==
    /\ \A p \in Procs : proc[p].pc = "idle"
    /\ OkResponse(prev, "historical") /\ OkResponse(resp, "historical")
    /\ prev.city = resp.city /\ prev.date = resp.date
    /\ IsTrackedCity(resp.city)
    /\ ServedBy(prev) = "upstream" /\ ServedBy(resp) = "upstream"

\* what one request running alone on an empty cache and store writes
AloneEntry(city, day, units) ==
    CacheSet(<<>>, city, <<day, day>>, "historical", Direct(city, day, units),
             today)[GetKey(city, <<day, day>>, "historical")]

AloneRecord(city, day, units) == Record(Direct(city, day, units), city)

\* C26: after two concurrent cold misses for one (tracked city, date,
\* historical), under every interleaving and whatever units each request
\* asked for, the cache entry and the historical record are complete and
\* equal to what either request running alone would have written.
C26_ConcurrentMissConverges ==
    ConcurrentMisses
        => LET key == GetKey(resp.city, resp.date, "historical")
               day == resp.date[1]
           IN  /\ key \in DOMAIN cache
               /\ Cardinality(Matches(coll, resp.city, day)) = 1
               /\ \A u \in {prev.units, resp.units} :
                     /\ cache[key] = AloneEntry(resp.city, day, u)
                     /\ FindOne(coll, resp.city, day)
                           = AloneRecord(resp.city, day, u)


\* the failure of the upstream call of r, when the call failed
FailureOf(r) ==
    r.trace[PosEv(r.trace, "upstream_failure")].failure

CallFailed(r) ==
    /\ r # Absent
    /\ r.op \in RequestKinds
    /\ HasEv(r.trace, "upstream_failure")

\* C27: an upstream 404 is surfaced to the caller as a not-found error and
\* every other upstream HTTP or network failure as a service error distinct
\* from not-found; in both cases the request has made exactly one upstream
\* call (no retry).
C27_UpstreamErrorTyping ==
    CallFailed(resp)
        => /\ FailureOf(resp) = 404
                 => resp.status = 404 /\ resp.code = "LOCATION_NOT_FOUND"
           /\ FailureOf(resp) # 404
                 => resp.status = 500 /\ resp.code = "WEATHER_API_ERROR"
           /\ CountEv(resp.trace, "upstream") = 1
           /\ CountEv(resp.trace, "upstream_failure") = 1
           /\ resp.data = Absent

C27_Witness ==
    /\ CallFailed(prev) /\ FailureOf(prev) = 404 /\ prev.status = 404
    /\ CallFailed(resp) /\ FailureOf(resp) = NoResponse /\ resp.status = 500
    /\ resp.op = "historical"
    /\ CountEv(resp.trace, "upstream") = 1


StatsReturned(r) == r # Absent /\ r.op = "mongo_stats"

\* C28: when a store operation fails during get_stats the result has
\* status error, zero records and an empty per-city coverage; when it
\* succeeds, every city it reports has missing_days = total_days minus the
\* number of records, with missing_days >= 0 and a coverage of at most 100%.
C28_CoverageStats ==
    StatsReturned(resp)
        => /\ HasEv(resp.trace, "store_fail")
                 => /\ resp.data.status = "error"
                    /\ resp.data.total_records = 0
                    /\ resp.data.records_by_city = <<>>
                    /\ resp.data.date_coverage = <<>>
           /\ ~HasEv(resp.trace, "store_fail")
                 => /\ resp.data.status = "operational"
                    /\ \A city \in DOMAIN resp.data.date_coverage :
                          LET cov == resp.data.date_coverage[city]
                          IN  /\ cov.total_days = cov.end_date - cov.start_date + 1
                              /\ cov.missing_days >= 0
                              /\ cov.coverage_percentage <= 10000


\* between any two upstream calls of the trace there is a pause
PausedBetweenCalls(trace) ==
    \A i, j \in 1..Len(trace) :
        (i < j /\ trace[i].ev = "upstream" /\ trace[j].ev = "upstream")
            => \E k \in (i + 1)..(j - 1) : trace[k].ev = "sleep"

\* C29: in a backfill run, between any two consecutive upstream calls at
\* least one pause of the caller-supplied delay occurs, also when the
\* earlier call, or the store write after it, failed.
C29_BackfillRateLimit ==
    /\ \A p \in Procs :
          proc[p].op = "backfill" => PausedBetweenCalls(proc[p].trace)
    /\ IsResponse(resp, "backfill") => PausedBetweenCalls(resp.trace)


\* the days on which the run looked for existing data, in the order of the
\* trace: first, first + 1, ..., last, each once
VisitsInOrder(trace, first, last) ==
    LET visits == {i \in 1..Len(trace) : trace[i].ev = "store_find"}
    IN  /\ \A day \in first..last : HasEvOn(trace, "store_find", day)
        /\ \A i \in visits : trace[i].day \in first..last
        /\ \A i, j \in visits : i < j => trace[i].day < trace[j].day
        /\ \A i \in 1..Len(trace) : \A j \in visits :
              i < j => trace[i].day <= trace[j].day

\* outcomes are listed in ascending order of their dates
Ascending(entries) ==
    \A i, j \in 1..Len(entries) : i < j => entries[i].date < entries[j].date

\* the last day a running backfill has visited
VisitedUpTo(me) == IF me.pc = "bf_check" THEN me.cur - 1 ELSE me.cur

BackfillInOrder ==
    /\ \A p \in Procs :
          proc[p].op = "backfill"
            => /\ proc[p].date = <<today - proc[p].days, today>>
               /\ proc[p].cur \in proc[p].date[1]..(proc[p].date[2] + 1)
               /\ VisitsInOrder(proc[p].trace, proc[p].date[1],
                                VisitedUpTo(proc[p]))
               /\ Ascending(proc[p].processed)
               /\ Ascending(proc[p].failed)
    /\ OkResponse(resp, "backfill")
          => /\ resp.date = <<today - resp.data.days_requested, today>>
             /\ VisitsInOrder(resp.trace, resp.date[1], resp.date[2])
             /\ Ascending(resp.data.processed_dates)
             /\ Ascending(resp.data.failed_dates)
             /\ AccountedFor(resp.data.processed_dates, resp.data.failed_dates,
                             resp.trace, resp.date[1], resp.date[2])

\* one date at a time: a step of a run stays on its date or moves to the next
OneDateAtATime ==
    \A p \in Procs :
        (proc[p].op = "backfill" /\ proc'[p].op = "backfill")
            => proc'[p].cur \in {proc[p].cur, proc[p].cur + 1}

BackfillRunning == \E p \in Procs : proc[p].op = "backfill"

ManifestReturned ==
    /\ \A p \in Procs : proc[p].op # "backfill"
    /\ OkResponse(resp, "backfill")
    /\ resp.data.days_processed + resp.data.days_failed
          = resp.data.days_requested + 1

\* C30: a backfill run for a tracked city visits each date of
\* [today - days, today] exactly once in ascending order, one at a time,
\* records the outcomes in that order, and terminates with a manifest
\* whatever mix of skips, successes and failures occurs.
C30_BackfillIteration ==
    /\ []BackfillInOrder
    /\ [][OneDateAtATime]_vars
    /\ (BackfillRunning ~> ManifestReturned)

\* a finished run of three dates with a skip, a success and a failure
C30_Witness ==
    /\ OkResponse(resp, "backfill")
    /\ resp.data.days_requested = 2
    /\ CountStatus(resp.data.processed_dates, "skipped") = 1
    /\ CountStatus(resp.data.processed_dates, "success") = 1
    /\ resp.data.days_failed = 1
    /\ VisitsInOrder(resp.trace, today - 2, today)


\* C31: for every city string the purge accepts, pattern characters such as
\* "*" included, clear_city_cache(c) deletes exactly the cache entries whose
\* city component equals c and leaves the entries of every other city
\* unchanged.
C31_PurgeFrame ==
    IsResponse(resp, "clear_city_cache")
        => LET before == resp.data.before
               others == {key \in DOMAIN before : key[1] # resp.city}
           IN  /\ resp.data.keys_removed
                     = Cardinality((DOMAIN before) \ others)
               /\ (\A p \in Procs : proc[p].pc = "idle")
                     => cache = [key \in others |-> before[key]]


\* the trace of task p after the step: the response's when the task returns
TraceAfter(p) ==
    IF proc[p].op # "idle" /\ proc'[p].op = "idle" THEN resp'.trace
    ELSE proc'[p].trace

\* task p writes to the store in this step
StoreWriteStep(p) ==
    /\ proc[p].op \in {"historical", "backfill"}
    /\ CountEv(TraceAfter(p), "store_upsert")
          = CountEv(proc[p].trace, "store_upsert") + 1

\* the day task p is working on
DayOf(me) == IF me.op = "backfill" THEN me.cur ELSE me.date[1]

WriteOnce ==
    /\ \A p \in Procs :
          StoreWriteStep(p)
              => /\ Matches(coll, proc[p].city, DayOf(proc[p])) = {}
                 /\ Len(coll') = Len(coll) + 1
    /\ \A i \in 1..Len(coll) : Len(coll') >= i /\ coll'[i] = coll[i]

\* C32: when requests and backfill runs execute one after another, a store
\* write for (city, date) happens only when no record for (city, date)
\* exists: an existing historical record is never overwritten.
C32_WriteOnce == [][WriteOnce]_vars

\* a backfill run that met a record written by an earlier request, skipped
\* its date and wrote the dates without a record
C32_Witness ==
    /\ OkResponse(prev, "historical")
    /\ HasEv(prev.trace, "store_upsert")
    /\ OkResponse(resp, "backfill")
    /\ CountStatus(resp.data.processed_dates, "skipped") = 1
    /\ CountStatus(resp.data.processed_dates, "success") >= 1
    /\ Len(resp.data.store0) = 1
    /\ coll[1] = resp.data.store0[1]
    /\ Len(coll) >= 2


\* C33: every historical record written by a request or by a backfill run
\* has a date no later than yesterday at the time of the write: the store
\* never holds a record for the current day.
C33_StoredDatesInWindow ==
    /\ \A i \in 1..Len(coll) : coll[i].date <= today - 1
    /\ \A k \in DOMAIN written : written[k].date <= today - 1


\* C34: the provider client and the cache converter agree: the reading the
\* client hands back for a historical request in units U equals, within
\* 0.01 for the temperatures and the wind speed, the client's reading of
\* the same provider values in standard units converted to U by the cache
\* converter.
C34_ConvertersAgree ==
    (OkResponse(resp, "historical") /\ ServedBy(resp) = "upstream")
       => CloseValues(resp.data,
                      ConvertUnits(Direct(resp.city, resp.date[1], "standard"),
                                   "standard", resp.units))


\* C35: a forecast answered by the provider client carries the provider's
\* daily entry for the requested calendar date, whatever the time of day of
\* the request: the values of the entry (date - today) days ahead.
C35_ForecastDaySelection ==
    (OkResponse(resp, "forecast") /\ ServedBy(resp) = "upstream")
       => SameValues(resp.data, Direct(resp.city, resp.date[1], resp.units))


\* the write-through of task p: WeatherCache.set has run and returned
CacheSetReturns(p) ==
    /\ proc[p].pc = "cache_set"
    /\ ~CacheSetRaises(proc[p].data)
    /\ proc'[p].pc # "cache_set"

\* the reading the caller of set holds after the call
HandedBack(p) == IF proc'[p].pc = "store_put" THEN proc'[p].data ELSE resp'.data

SetKeepsArgument ==
    \A p \in Procs :
        CacheSetReturns(p)
           => /\ HandedBack(p) = proc[p].data
              /\ HandedBack(p).units = proc[p].units

\* C36: WeatherCache.set does not change its argument: after the
\* write-through the reading the caller holds has the units tag and the
\* values it had before the call, while the entry written is in standard
\* units.
C36_SetFrame == [][SetKeepsArgument]_vars

\* an imperial reading was written through: the entry holds the converted
\* copy, the response the reading as it was
C36_Witness ==
    /\ OkResponse(resp, "historical")
    /\ ServedBy(resp) = "upstream"
    /\ resp.units = "imperial"
    /\ resp.data.units = "imperial"
    /\ GetKey(resp.city, resp.date, "historical") \in DOMAIN cache
    /\ cache[GetKey(resp.city, resp.date, "historical")].val.units = "standard"
    /\ cache[GetKey(resp.city, resp.date, "historical")].val.tmin # resp.data.tmin


\* C37: in the manifest of every backfill run, days_processed plus
\* days_failed equals the days_requested reported in the same manifest.
C37_ManifestCounts ==
    OkResponse(resp, "backfill")
       => resp.data.days_processed + resp.data.days_failed
             = resp.data.days_requested


\* C38: get_stats returns a result in every reachable cache state, the
\* state with zero hits and zero misses included; total_keys is the sum of
\* the per-kind counts and hit rate plus miss rate is 100%.
C38_StatsNeverFail ==
    IsResponse(resp, "cache_stats")
       => /\ resp.status = 200
          /\ resp.data.total_keys = SumValues(resp.data.cache_type_distribution)
          /\ resp.data.hit_rate + resp.data.miss_rate = 1000

=============================================================================
